---- MODULE Spec2Model ----
(***************************************************************************)
(* The transcode-and-publish pipeline of src/runpod/handler.js:            *)
(* handleVideoEncoding (workspace, download, probe, encode, publish,       *)
(* cleanup), encodeWithNVENC (the supervised encoder child process) and    *)
(* checkNVENCAvailability (the three-step capability detector with its two *)
(* timers).  One action is one callback of the Node.js event loop: the     *)
(* synchronous code that runs from an event (a promise settling, a child   *)
(* process event, a timer) up to the next await.                           *)
(***************************************************************************)
EXTENDS Integers, FiniteSets, Sequences, TLC

\* ------------------------------------------------------------- bounds
NumJobs == 2
MaxSegs == 2
MaxLogChunks == 2

\* -------------------------------------------------- program constants
\* setTimeout(..., 5000) of the device query and setTimeout(..., 10000) of the
\* smoke encode, in seconds; logs.slice(-1000); one stderr chunk of the
\* encoder is taken to be LogChunk characters long.
NvidiaTimeout == 5
TestTimeout == 10
LogTail == 1000
LogChunk == 600
\* The frame rate in Math.round(30 * segmentTime).
AssumedFps == 30
\* The frame rate of (...)() || 30 in getVideoInfo.
FallbackFps == 30

Jobs == 1..NumJobs
\* The owner recorded for a path that does not exist.
NoJob == NumJobs + 1
\* The exit code a close handler receives for a child ended by a signal (null).
KilledCode == 0 - 1
\* The code a close handler receives for a child that could not be spawned
\* (the negative errno, ENOENT).
SpawnErrno == 0 - 2

VARIABLES
    crashed,    \* an 'error' event without listener or a throw inside an event callback ended the Node.js process
    pc,         \* pc[j]: where job j's handleVideoEncoding call stands
    upload,     \* upload[j]: ossConfig && output.uploadToStorage of job j's request
    dirExists,  \* the tree /tmp/encoding, /tmp/encoding/output, /tmp/encoding/output/ts exists
    inputFile,  \* the job that last wrote /tmp/encoding/input.mp4, NoJob when the file is absent
    playlist,   \* the job that last wrote output/master.m3u8, NoJob when absent
    segs,       \* segs[n]: the job that last wrote output/ts/00n.ts, NoJob when absent
    nv,         \* nv[j]: the nvidia-smi -L child process (nvidiaCheck)
    encq,       \* encq[j]: the ffmpeg -encoders child process (encoderCheck)
    test,       \* test[j]: the smoke-encode child process (testProc)
    nvRes,      \* nvRes[j]: what nvidiaCheck's close handler saw
    encRes,     \* encRes[j]: what encoderCheck's close handler saw
    testRes,    \* testRes[j]: what testProc's close handler saw
    verdict,    \* verdict[j]: the settled value of checkNVENCAvailability's promise
    by,         \* by[j]: the callback that settled the verdict
    t1,         \* t1[j]: the 5 s timer set beside nvidiaCheck
    t2,         \* t2[j]: the 10 s timer set beside testProc
    t2At,       \* t2At[j]: the clock value at which t2[j] is due
    clk,        \* clk[j]: seconds since checkNVENCAvailability of job j started
    useNVENC,   \* useNVENC[j]: the value encodeWithNVENC awaited
    encp,       \* encp[j]: the encoder child process (proc) of encodeWithNVENC
    encExit,    \* encExit[j]: the code the encoder's close handler received
    encOutcome, \* encOutcome[j]: how encodeWithNVENC's promise settled
    logChunks,  \* logChunks[j]: stderr chunks appended to logs
    reported,   \* reported[j]: the slice of logs written by console.error on failure
    written,    \* written[j]: segments the encoder of job j has written so far
    tsFiles,    \* tsFiles[j]: the names readdirSync(tsDir) returned to job j
    upIdx,      \* upIdx[j]: index i of the upload loop
    result,     \* result[j]: what the call returned or threw
    wsAtReturn, \* wsAtReturn[j]: fs.existsSync(workDir) at the moment the call returned
    fnIn,       \* the arguments of the function under study, NoCall in the runs of the pipeline
    fnOut       \* what that function computed, NoCall before it ran

fsVars == <<dirExists, inputFile, playlist, segs>>
detVars == <<nv, encq, test, nvRes, encRes, testRes, verdict, by, t1, t2, t2At, clk>>
encVars == <<useNVENC, encp, encExit, encOutcome, logChunks, reported, written>>
jobVars == <<pc, upload, tsFiles, upIdx, result, wsAtReturn>>
fnVars == <<fnIn, fnOut>>
pipeVars == <<crashed, fsVars, detVars, encVars, jobVars>>
vars == <<crashed, fsVars, detVars, encVars, jobVars, fnVars>>

NoCall == [fn |-> "none"]

SegNames == 0..(MaxSegs - 1)
ProcStates == {"none", "running", "hung", "killing", "exited", "spawnfail", "spawnclosed"}
Live == {"running", "hung"}

Min(a, b) == IF a < b THEN a ELSE b
Max(a, b) == IF a > b THEN a ELSE b

\* The worker before any request.
Idle ==
    /\ crashed = FALSE
    /\ pc = [j \in Jobs |-> "idle"]
    /\ upload = [j \in Jobs |-> FALSE]
    /\ dirExists = FALSE
    /\ inputFile = NoJob
    /\ playlist = NoJob
    /\ segs = [n \in SegNames |-> NoJob]
    /\ nv = [j \in Jobs |-> "none"]
    /\ encq = [j \in Jobs |-> "none"]
    /\ test = [j \in Jobs |-> "none"]
    /\ nvRes = [j \in Jobs |-> "none"]
    /\ encRes = [j \in Jobs |-> "none"]
    /\ testRes = [j \in Jobs |-> "none"]
    /\ verdict = [j \in Jobs |-> "pending"]
    /\ by = [j \in Jobs |-> "none"]
    /\ t1 = [j \in Jobs |-> "off"]
    /\ t2 = [j \in Jobs |-> "off"]
    /\ t2At = [j \in Jobs |-> 0]
    /\ clk = [j \in Jobs |-> 0]
    /\ useNVENC = [j \in Jobs |-> FALSE]
    /\ encp = [j \in Jobs |-> "none"]
    /\ encExit = [j \in Jobs |-> -1]
    /\ encOutcome = [j \in Jobs |-> "pending"]
    /\ logChunks = [j \in Jobs |-> 0]
    /\ reported = [j \in Jobs |-> <<0, 0>>]
    /\ written = [j \in Jobs |-> 0]
    /\ tsFiles = [j \in Jobs |-> {}]
    /\ upIdx = [j \in Jobs |-> 0]
    /\ result = [j \in Jobs |-> "none"]
    /\ wsAtReturn = [j \in Jobs |-> "none"]

Init ==
    /\ Idle
    /\ fnIn = NoCall
    /\ fnOut = NoCall

\* --------------------------------------------------------- workspace
\* fs.rmSync(workDir, {recursive, force}) inside try/catch: rmOk is whether
\* rmSync returned; when it throws the catch only logs a warning.
RmTree(rmOk) ==
    IF dirExists /\ rmOk
    THEN /\ dirExists' = FALSE
         /\ inputFile' = NoJob
         /\ playlist' = NoJob
         /\ segs' = [n \in SegNames |-> NoJob]
    ELSE UNCHANGED fsVars

\* The finally block of handleVideoEncoding followed by the return or the
\* rethrow: the call of job j ends with outcome res.
Finish(j, res, rmOk) ==
    /\ RmTree(rmOk)
    /\ pc' = [pc EXCEPT ![j] = "returned"]
    /\ result' = [result EXCEPT ![j] = res]
    /\ wsAtReturn' = [wsAtReturn EXCEPT ![j] = IF dirExists' THEN "present" ELSE "absent"]

Active(j) == pc[j] \notin {"idle", "returned", "rejected"}

\* ------------------------------------------------ handleVideoEncoding
\* The three tests that throw before the workspace is made; each argument
\* is the truthiness of the field of that name.
Invalid(videoUrl, driveId, googleToken, md5DriveId) ==
    (~videoUrl /\ ~driveId) \/ (driveId /\ ~googleToken) \/ ~md5DriveId

\* A handler that makes the workspace before it validates the request.
ReceiveMkdirFirst(j, videoUrl, driveId, googleToken, md5DriveId, wantUpload) ==
    /\ ~crashed
    /\ pc[j] = "idle"
    /\ dirExists' = TRUE
    /\ IF Invalid(videoUrl, driveId, googleToken, md5DriveId)
       THEN /\ pc' = [pc EXCEPT ![j] = "rejected"]
            /\ result' = [result EXCEPT ![j] = "error"]
            /\ UNCHANGED upload
       ELSE /\ pc' = [pc EXCEPT ![j] = IF driveId THEN "downloadDrive" ELSE "downloadUrl"]
            /\ upload' = [upload EXCEPT ![j] = wantUpload]
            /\ UNCHANGED result
    /\ UNCHANGED <<crashed, inputFile, playlist, segs, detVars, encVars, tsFiles, upIdx, wsAtReturn>>
    /\ UNCHANGED fnVars

\* Validation and the three mkdirSync calls (recursive: an existing tree and
\* its contents are kept), up to the first await.
Receive(j, videoUrl, driveId, googleToken, md5DriveId, wantUpload) ==
    /\ ~crashed
    /\ pc[j] = "idle"
    /\ IF Invalid(videoUrl, driveId, googleToken, md5DriveId)
       THEN /\ pc' = [pc EXCEPT ![j] = "rejected"]
            /\ result' = [result EXCEPT ![j] = "error"]
            /\ UNCHANGED <<upload, dirExists>>
       ELSE /\ pc' = [pc EXCEPT ![j] = IF driveId THEN "downloadDrive" ELSE "downloadUrl"]
            /\ upload' = [upload EXCEPT ![j] = wantUpload]
            /\ dirExists' = TRUE
            /\ UNCHANGED result
    /\ UNCHANGED <<crashed, inputFile, playlist, segs, detVars, encVars, tsFiles, upIdx, wsAtReturn>>
    /\ UNCHANGED fnVars

\* downloadVideo / downloadVideoFromGoogleDrive: the writer finished.
\* createWriteStream truncates whatever file is at the path.
DownloadOk(j) ==
    /\ ~crashed
    /\ pc[j] \in {"downloadUrl", "downloadDrive"}
    /\ dirExists
    /\ inputFile' = j
    /\ pc' = [pc EXCEPT ![j] = "probe"]
    /\ UNCHANGED <<crashed, dirExists, playlist, segs, detVars, encVars, upload, tsFiles, upIdx, result, wsAtReturn>>
    /\ UNCHANGED fnVars

\* The request failed, the stream writer reported an error, or the drive
\* rejected the token: the await throws and the finally block runs.
DownloadFail(j, rmOk) ==
    /\ ~crashed
    /\ pc[j] \in {"downloadUrl", "downloadDrive"}
    /\ Finish(j, "error", rmOk)
    /\ UNCHANGED <<crashed, detVars, encVars, upload, tsFiles, upIdx>>
    /\ UNCHANGED fnVars

\* The remote stream errored or was aborted after the response started.
\* pipe() does not end or destroy the writer when its source fails and
\* nothing listens on response.data for 'error', 'aborted' or 'close':
\* either the stream emits 'error' (emitted), an uncaught exception, or it
\* only closes and the writer stays open with nothing left to finish it.
SourceAbort(j, emitted) ==
    /\ ~crashed
    /\ pc[j] \in {"downloadUrl", "downloadDrive"}
    /\ dirExists
    /\ inputFile' = j
    /\ IF emitted
       THEN crashed' = TRUE /\ UNCHANGED pc
       ELSE crashed' = FALSE /\ pc' = [pc EXCEPT ![j] = "downloadStalled"]
    /\ UNCHANGED <<dirExists, playlist, segs, detVars, encVars, upload, tsFiles, upIdx, result, wsAtReturn>>
    /\ UNCHANGED fnVars

\* -------------------------------------------- checkNVENCAvailability
\* A resolve that overwrites a verdict already settled.
SettleLast(j, v, who) ==
    /\ verdict' = [verdict EXCEPT ![j] = v]
    /\ by' = [by EXCEPT ![j] = who]
    /\ useNVENC' = [useNVENC EXCEPT ![j] = (v = "hw")]
    /\ encp' = [encp EXCEPT ![j] = IF verdict[j] = "pending" THEN "running" ELSE encp[j]]
    /\ pc' = [pc EXCEPT ![j] = IF verdict[j] = "pending" THEN "encode" ELSE pc[j]]

\* resolve(v) of the detector's promise, and what the await in
\* encodeWithNVENC does next in the same turn of the event loop: build the
\* arguments for the path and spawn the encoder.  A second resolve is a no-op.
Settle(j, v, who) ==
    IF verdict[j] = "pending"
    THEN /\ verdict' = [verdict EXCEPT ![j] = v]
         /\ by' = [by EXCEPT ![j] = who]
         /\ useNVENC' = [useNVENC EXCEPT ![j] = (v = "hw")]
         /\ encp' = [encp EXCEPT ![j] = "running"]
         /\ pc' = [pc EXCEPT ![j] = "encode"]
    ELSE UNCHANGED <<verdict, by, useNVENC, encp, pc>>

NoSettle == UNCHANGED <<verdict, by, useNVENC, encp, pc>>

\* child.kill(): a child that already exited is left alone.
Kill(st) == IF st \in Live THEN "killing" ELSE st

\* ProbeOk with the verdict of an earlier detection kept and used again.
ProbeOkCached(j, launched) ==
    /\ ~crashed
    /\ pc[j] = "probe"
    /\ inputFile # NoJob
    /\ IF \E k \in Jobs \ {j} : verdict[k] # "pending"
       THEN /\ Settle(j, verdict[CHOOSE k \in Jobs \ {j} : verdict[k] # "pending"], "cache")
            /\ UNCHANGED <<nv, t1, clk, crashed>>
       ELSE /\ pc' = [pc EXCEPT ![j] = "detect"]
            /\ nv' = [nv EXCEPT ![j] = IF launched THEN "running" ELSE "spawnfail"]
            /\ t1' = [t1 EXCEPT ![j] = "armed"]
            /\ clk' = [clk EXCEPT ![j] = 0]
            /\ crashed' = ~launched
            /\ UNCHANGED <<verdict, by, useNVENC, encp>>
    /\ UNCHANGED <<fsVars, encq, test, nvRes, encRes, testRes, t2, t2At,
                   encExit, encOutcome, logChunks, reported, written,
                   upload, tsFiles, upIdx, result, wsAtReturn>>
    /\ UNCHANGED fnVars

\* getVideoInfo resolved; encodeWithNVENC starts and with it the executor of
\* checkNVENCAvailability: spawn nvidia-smi -L, set the 5 s timer.  launched
\* is whether the binary could be started; no 'error' listener is attached.
ProbeOk(j, launched) ==
    /\ ~crashed
    /\ pc[j] = "probe"
    /\ inputFile # NoJob
    /\ pc' = [pc EXCEPT ![j] = "detect"]
    /\ nv' = [nv EXCEPT ![j] = IF launched THEN "running" ELSE "spawnfail"]
    /\ t1' = [t1 EXCEPT ![j] = "armed"]
    /\ clk' = [clk EXCEPT ![j] = 0]
    /\ crashed' = ~launched
    /\ UNCHANGED <<fsVars, encq, test, nvRes, encRes, testRes, verdict, by, t2, t2At,
                   encVars, upload, tsFiles, upIdx, result, wsAtReturn>>
    /\ UNCHANGED fnVars

\* ffprobe reported an error.
ProbeFail(j, rmOk) ==
    /\ ~crashed
    /\ pc[j] = "probe"
    /\ Finish(j, "error", rmOk)
    /\ UNCHANGED <<crashed, detVars, encVars, upload, tsFiles, upIdx>>
    /\ UNCHANGED fnVars

\* nvidiaCheck.on('close'): code is the exit code, gpu is hasNvidiaGPU.
\* On a pass the encoder listing is spawned (launched: it could be started).
NvClose(j, code, gpu, launched) ==
    /\ ~crashed
    /\ nv[j] \in {"running", "killing"}
    /\ nv[j] = "killing" => code = KilledCode
    /\ nv[j] = "running" => code # KilledCode
    /\ nv' = [nv EXCEPT ![j] = "exited"]
    /\ IF ~gpu \/ code # 0
       THEN /\ nvRes' = [nvRes EXCEPT ![j] = "bad"]
            /\ Settle(j, "sw", "nvClose")
            /\ UNCHANGED <<encq, crashed>>
       ELSE /\ nvRes' = [nvRes EXCEPT ![j] = "ok"]
            /\ encq' = [encq EXCEPT ![j] = IF launched THEN "running" ELSE "spawnfail"]
            /\ crashed' = ~launched
            /\ NoSettle
    /\ UNCHANGED <<fsVars, test, encRes, testRes, t1, t2, t2At, clk,
                   encExit, encOutcome, logChunks, reported, written,
                   upload, tsFiles, upIdx, result, wsAtReturn>>
    /\ UNCHANGED fnVars

\* encoderCheck.on('close'): the exit code is logged and not looked at;
\* hasNvenc is whether stdout named h264_nvenc, hevc_nvenc or av1_nvenc.
\* On a pass the smoke encode is spawned and its 10 s timer set.
EncqClose(j, hasNvenc, launched) ==
    /\ ~crashed
    /\ encq[j] = "running"
    /\ encq' = [encq EXCEPT ![j] = "exited"]
    /\ IF ~hasNvenc
       THEN /\ encRes' = [encRes EXCEPT ![j] = "bad"]
            /\ Settle(j, "sw", "encqClose")
            /\ UNCHANGED <<test, t2, t2At, crashed>>
       ELSE /\ encRes' = [encRes EXCEPT ![j] = "ok"]
            /\ test' = [test EXCEPT ![j] = IF launched THEN "running" ELSE "spawnfail"]
            /\ t2' = [t2 EXCEPT ![j] = "armed"]
            /\ t2At' = [t2At EXCEPT ![j] = clk[j] + TestTimeout]
            /\ crashed' = ~launched
            /\ NoSettle
    /\ UNCHANGED <<fsVars, nv, nvRes, testRes, t1, clk,
                   encExit, encOutcome, logChunks, reported, written,
                   upload, tsFiles, upIdx, result, wsAtReturn>>
    /\ UNCHANGED fnVars

\* TestClose with the testError flag left out of the test.
TestCloseNoFlag(j, testCode, testError) ==
    /\ ~crashed
    /\ test[j] \in {"running", "killing"}
    /\ test[j] = "killing" => testCode = KilledCode
    /\ test[j] = "running" => testCode # KilledCode
    /\ test' = [test EXCEPT ![j] = "exited"]
    /\ IF testCode = 0
       THEN /\ testRes' = [testRes EXCEPT ![j] = IF testError THEN "bad" ELSE "ok"]
            /\ Settle(j, "hw", "testClose")
       ELSE /\ testRes' = [testRes EXCEPT ![j] = "bad"]
            /\ Settle(j, "sw", "testClose")
    /\ UNCHANGED <<crashed, fsVars, nv, encq, nvRes, encRes, t1, t2, t2At, clk,
                   encExit, encOutcome, logChunks, reported, written,
                   upload, tsFiles, upIdx, result, wsAtReturn>>
    /\ UNCHANGED fnVars

\* testProc.on('close'): testCode and the testError flag raised by a
\* recognised initialisation-failure message on stderr.
TestClose(j, testCode, testError) ==
    /\ ~crashed
    /\ test[j] \in {"running", "killing"}
    /\ test[j] = "killing" => testCode = KilledCode
    /\ test[j] = "running" => testCode # KilledCode
    /\ test' = [test EXCEPT ![j] = "exited"]
    /\ IF testCode = 0 /\ ~testError
       THEN /\ testRes' = [testRes EXCEPT ![j] = "ok"]
            /\ Settle(j, "hw", "testClose")
       ELSE /\ testRes' = [testRes EXCEPT ![j] = "bad"]
            /\ Settle(j, "sw", "testClose")
    /\ UNCHANGED <<crashed, fsVars, nv, encq, nvRes, encRes, t1, t2, t2At, clk,
                   encExit, encOutcome, logChunks, reported, written,
                   upload, tsFiles, upIdx, result, wsAtReturn>>
    /\ UNCHANGED fnVars

\* The 5 s timer set when nvidiaCheck was spawned; it is never cleared.
Timer1(j) ==
    /\ ~crashed
    /\ t1[j] = "armed"
    /\ clk[j] = NvidiaTimeout
    /\ t1' = [t1 EXCEPT ![j] = "fired"]
    /\ nv' = [nv EXCEPT ![j] = Kill(nv[j])]
    /\ Settle(j, "sw", "timer1")
    /\ UNCHANGED <<crashed, fsVars, encq, test, nvRes, encRes, testRes, t2, t2At, clk,
                   encExit, encOutcome, logChunks, reported, written,
                   upload, tsFiles, upIdx, result, wsAtReturn>>
    /\ UNCHANGED fnVars

\* The 10 s timer set when testProc was spawned; it is never cleared.
Timer2(j) ==
    /\ ~crashed
    /\ t2[j] = "armed"
    /\ clk[j] = t2At[j]
    /\ t2' = [t2 EXCEPT ![j] = "fired"]
    /\ test' = [test EXCEPT ![j] = Kill(test[j])]
    /\ Settle(j, "sw", "timer2")
    /\ UNCHANGED <<crashed, fsVars, nv, encq, nvRes, encRes, testRes, t1, t2At, clk,
                   encExit, encOutcome, logChunks, reported, written,
                   upload, tsFiles, upIdx, result, wsAtReturn>>
    /\ UNCHANGED fnVars

\* The deadlines of the timers of job j that are set and have not fired.
Due(j) ==
    (IF t1[j] = "armed" THEN {NvidiaTimeout} ELSE {}) \cup
    (IF t2[j] = "armed" THEN {t2At[j]} ELSE {})

\* One second passes for job j's detector.  A timer fires when it is due:
\* the clock does not pass a deadline of a timer that is still set.
Tick(j) ==
    /\ ~crashed
    /\ Due(j) # {}
    /\ \A d \in Due(j) : clk[j] < d
    /\ clk' = [clk EXCEPT ![j] = clk[j] + 1]
    /\ UNCHANGED <<crashed, fsVars, nv, encq, test, nvRes, encRes, testRes, verdict, by,
                   t1, t2, t2At, encVars, jobVars>>
    /\ UNCHANGED fnVars

\* A probe child process that will never exit by itself.
NvHang(j) ==
    /\ ~crashed
    /\ nv[j] = "running"
    /\ nv' = [nv EXCEPT ![j] = "hung"]
    /\ UNCHANGED <<crashed, fsVars, encq, test, nvRes, encRes, testRes, verdict, by,
                   t1, t2, t2At, clk, encVars, jobVars>>
    /\ UNCHANGED fnVars

EncqHang(j) ==
    /\ ~crashed
    /\ encq[j] = "running"
    /\ encq' = [encq EXCEPT ![j] = "hung"]
    /\ UNCHANGED <<crashed, fsVars, nv, test, nvRes, encRes, testRes, verdict, by,
                   t1, t2, t2At, clk, encVars, jobVars>>
    /\ UNCHANGED fnVars

TestHang(j) ==
    /\ ~crashed
    /\ test[j] = "running"
    /\ test' = [test EXCEPT ![j] = "hung"]
    /\ UNCHANGED <<crashed, fsVars, nv, encq, nvRes, encRes, testRes, verdict, by,
                   t1, t2, t2At, clk, encVars, jobVars>>
    /\ UNCHANGED fnVars

\* ---------------------------------------------------- encodeWithNVENC
\* slice(0, n) in place of slice(-n): the head of the string.
SliceFirst(len, n) == <<0, Min(len, n)>>

\* String.prototype.slice(-n) on a string of length len: the characters from
\* index max(len - n, 0) up to len, as <<from, to>>.
SliceLast(len, n) == <<Max(len - n, 0), len>>

LogsLen(j) == logChunks[j] * LogChunk

\* proc.stderr.on('data'): logs += output.
EncStderr(j) ==
    /\ ~crashed
    /\ encp[j] \in Live
    /\ logChunks[j] < MaxLogChunks
    /\ logChunks' = [logChunks EXCEPT ![j] = logChunks[j] + 1]
    /\ UNCHANGED <<crashed, fsVars, detVars, useNVENC, encp, encExit, encOutcome,
                   reported, written, jobVars>>
    /\ UNCHANGED fnVars

\* The encoder finished a segment: it writes output/ts/%03d.ts, numbered
\* from 0 (-start_number 0), and rewrites output/master.m3u8.
EncWrite(j) ==
    /\ ~crashed
    /\ encp[j] = "running"
    /\ written[j] < MaxSegs
    /\ dirExists
    /\ segs' = [segs EXCEPT ![written[j]] = j]
    /\ playlist' = j
    /\ written' = [written EXCEPT ![j] = written[j] + 1]
    /\ UNCHANGED <<crashed, dirExists, inputFile, detVars, useNVENC, encp, encExit,
                   encOutcome, logChunks, reported, jobVars>>
    /\ UNCHANGED fnVars

\* The encoder writes output/master.m3u8 without having finished a segment
\* (the playlist of an output that holds no frame).
EncWriteList(j) ==
    /\ ~crashed
    /\ encp[j] = "running"
    /\ written[j] = 0
    /\ dirExists
    /\ playlist # j
    /\ playlist' = j
    /\ UNCHANGED <<crashed, dirExists, inputFile, segs, detVars, encVars, jobVars>>
    /\ UNCHANGED fnVars

\* An encoder that will never exit by itself.
EncHang(j) ==
    /\ ~crashed
    /\ encp[j] = "running"
    /\ encp' = [encp EXCEPT ![j] = "hung"]
    /\ UNCHANGED <<crashed, fsVars, detVars, useNVENC, encExit, encOutcome,
                   logChunks, reported, written, jobVars>>
    /\ UNCHANGED fnVars

\* proc.on('error'): the encoder could not be spawned; reject(err), which
\* handleVideoEncoding's await rethrows into the finally block.
EncSpawnError(j, rmOk) ==
    /\ ~crashed
    /\ encp[j] = "running"
    /\ logChunks[j] = 0
    /\ written[j] = 0
    /\ encOutcome[j] = "pending"
    /\ encp' = [encp EXCEPT ![j] = "spawnfail"]
    /\ encOutcome' = [encOutcome EXCEPT ![j] = "rejectedSpawn"]
    /\ Finish(j, "error", rmOk)
    /\ UNCHANGED <<crashed, detVars, useNVENC, encExit, logChunks, reported, written,
                   upload, tsFiles, upIdx>>
    /\ UNCHANGED fnVars

\* resolve or reject of encodeWithNVENC's promise with a second settlement
\* taking the place of the first.
SettleEncodeLast(j, v) == [encOutcome EXCEPT ![j] = v]

\* resolve or reject of encodeWithNVENC's promise: the value of encOutcome
\* afterwards.  A promise that is already settled keeps its first outcome.
SettleEncode(j, v) ==
    IF encOutcome[j] = "pending" THEN [encOutcome EXCEPT ![j] = v] ELSE encOutcome

\* proc.on('close') of an encoder that could not be spawned: Node.js emits
\* 'error' first and then 'close' with the negative errno.  The code is not
\* 0, so the handler writes the log tail and rejects a second time; the call
\* has already returned.
EncSpawnClose(j) ==
    /\ ~crashed
    /\ encp[j] = "spawnfail"
    /\ encp' = [encp EXCEPT ![j] = "spawnclosed"]
    /\ encExit' = [encExit EXCEPT ![j] = SpawnErrno]
    /\ reported' = [reported EXCEPT ![j] = SliceLast(LogsLen(j), LogTail)]
    /\ encOutcome' = SettleEncode(j, "rejectedExit")
    /\ UNCHANGED <<crashed, fsVars, detVars, useNVENC, logChunks, written, jobVars>>
    /\ UNCHANGED fnVars

\* The names readdirSync(tsDir).filter(f => f.endsWith('.ts')) returns.
ReadTsDir == {n \in SegNames : segs[n] # NoJob}

\* proc.on('close') with a non-zero code: the tail of logs is written to the
\* console and the promise rejected; the finally block runs.
EncCloseFail(j, code, rmOk) ==
    /\ ~crashed
    /\ encp[j] = "running"
    /\ code # 0
    /\ encp' = [encp EXCEPT ![j] = "exited"]
    /\ encExit' = [encExit EXCEPT ![j] = code]
    /\ reported' = [reported EXCEPT ![j] = SliceLast(LogsLen(j), LogTail)]
    /\ encOutcome' = [encOutcome EXCEPT ![j] = "rejectedExit"]
    /\ Finish(j, "error", rmOk)
    /\ UNCHANGED <<crashed, detVars, useNVENC, logChunks, written, upload, tsFiles, upIdx>>
    /\ UNCHANGED fnVars

\* proc.on('close') with code 0.  readdirSync in the close handler throws
\* when the ts directory is gone, and nothing catches a throw in an event
\* callback.  Otherwise the promise resolves and handleVideoEncoding goes
\* on in the same turn: readFileSync(master.m3u8) (throws when absent),
\* readdirSync(tsDir), and then the first put of the upload loop, the put of
\* the playlist when there is no segment, or the result and the finally
\* block when nothing is published.
EncCloseOk(j, rmOk) ==
    /\ ~crashed
    /\ encp[j] = "running"
    /\ encp' = [encp EXCEPT ![j] = "exited"]
    /\ encExit' = [encExit EXCEPT ![j] = 0]
    /\ IF ~dirExists
       THEN /\ crashed' = TRUE
            /\ UNCHANGED <<encOutcome, fsVars, jobVars>>
       ELSE /\ encOutcome' = [encOutcome EXCEPT ![j] = "resolved"]
            /\ UNCHANGED <<crashed, upload, upIdx>>
            /\ IF playlist = NoJob
               THEN /\ Finish(j, "error", rmOk)
                    /\ UNCHANGED tsFiles
               ELSE /\ tsFiles' = [tsFiles EXCEPT ![j] = ReadTsDir]
                    /\ IF upload[j]
                       THEN /\ pc' = [pc EXCEPT ![j] = IF ReadTsDir = {} THEN "m3u8" ELSE "upload"]
                            /\ UNCHANGED <<fsVars, result, wsAtReturn>>
                       ELSE Finish(j, "completed", rmOk)
    /\ UNCHANGED <<detVars, useNVENC, logChunks, reported, written>>
    /\ UNCHANGED fnVars

\* ---------------------------------------------- encoder arguments
\* The requests and probe results the argument lists are computed for:
\* quality as sent by the client (any string), segments.duration in halves of
\* a second, videoInfo.fps.
Qualities == {"low", "medium", "high", "ultra", "", "constructor"}
SegHalves == {2, 3, 4, 12}
ProbedFps == {24, 25, 30, 60}

Digit(d) == <<"0", "1", "2", "3", "4", "5", "6", "7", "8", "9">>[d + 1]

\* Number.prototype.toString() of a non-negative integer, as its characters.
RECURSIVE DecStr(_)
DecStr(n) == IF n < 10 THEN <<Digit(n)>> ELSE DecStr(n \div 10) \o <<Digit(n % 10)>>

\* toString() of a number of seconds held in halves: 4 is "2", 5 is "2.5".
HalvesStr(h) == IF h % 2 = 0 THEN DecStr(h \div 2) ELSE DecStr(h \div 2) \o <<".", "5">>

\* Math.round(x) for x = x2 / 2, x2 >= 0: halves round up.
MathRound(x2) == (x2 + 1) \div 2

\* The object literal qualitySettings and the names it inherits from
\* Object.prototype (two of them).
QualitySettings ==
    [high |-> [qp |-> "20", preset |-> "p4"],
     medium |-> [qp |-> "25", preset |-> "p4"],
     low |-> [qp |-> "30", preset |-> "p6"]]

Inherited == {"constructor", "toString"}

\* qualitySettings[quality] || qualitySettings.medium.  An inherited name
\* yields a function, which is truthy and has neither qp nor preset.
Settings(quality) ==
    IF quality \in DOMAIN QualitySettings THEN QualitySettings[quality]
    ELSE IF quality \in Inherited THEN [qp |-> "undefined", preset |-> "undefined"]
    ELSE QualitySettings.medium

\* gopSize = Math.round(30 * segmentTime), segmentTime = h / 2.
GopSize(h) == MathRound(AssumedFps * h)

\* The args array of the NVENC branch, as flag :> value; "output" is the
\* trailing playlist path.
ArgsHW(quality, h) ==
    ("-y" :> "") @@
    ("-init_hw_device" :> "cuda=gpu:0") @@
    ("-filter_hw_device" :> "gpu") @@
    ("-hwaccel" :> "cuda") @@
    ("-hwaccel_output_format" :> "cuda") @@
    ("-i" :> "/tmp/encoding/input.mp4") @@
    ("-vf" :> "hwupload,scale_npp=trunc(iw/2)*2:trunc(ih/2)*2:interp_algo=lanczos") @@
    ("-c:v" :> "h264_nvenc") @@
    ("-preset" :> Settings(quality).preset) @@
    ("-rc" :> "vbr") @@
    ("-cq" :> "23") @@
    ("-b:v" :> "2500k") @@
    ("-maxrate" :> "4000k") @@
    ("-bufsize" :> "5000k") @@
    ("-profile:v" :> "high") @@
    ("-level" :> "4.1") @@
    ("-bf" :> "2") @@
    ("-spatial_aq" :> "1") @@
    ("-temporal_aq" :> "1") @@
    ("-g" :> DecStr(GopSize(h))) @@
    ("-keyint_min" :> DecStr(GopSize(h))) @@
    ("-force_key_frames" :> <<"expr:gte(t,n_forced*">> \o HalvesStr(h) \o <<")">>) @@
    ("-c:a" :> "aac") @@
    ("-b:a" :> "128k") @@
    ("-ac" :> "2") @@
    ("-ar" :> "48000") @@
    ("-hls_time" :> HalvesStr(h)) @@
    ("-hls_playlist_type" :> "vod") @@
    ("-hls_flags" :> "independent_segments") @@
    ("-hls_list_size" :> "0") @@
    ("-start_number" :> "0") @@
    ("-hls_segment_filename" :> "/tmp/encoding/output/ts/%03d.ts") @@
    ("-f" :> "hls") @@
    ("output" :> "/tmp/encoding/output/master.m3u8")

\* A software list that mixes the audio down to one channel.
ArgsSWMono(quality, h) == [ArgsHW(quality, h) EXCEPT !["-ac"] = "1"]

\* The args array of the software branch.
ArgsSW(quality, h) ==
    ("-y" :> "") @@
    ("-i" :> "/tmp/encoding/input.mp4") @@
    ("-vf" :> "scale=trunc(iw/2)*2:trunc(ih/2)*2:out_range=full:flags=lanczos,eq=contrast=1.15:saturation=1.28:brightness=0.05:gamma=0.95,unsharp=5:5:1.2:5:5:0.8") @@
    ("-c:v" :> "libx264") @@
    ("-preset" :> "fast") @@
    ("-crf" :> "23") @@
    ("-profile:v" :> "high") @@
    ("-level" :> "4.1") @@
    ("-bf" :> "2") @@
    ("-g" :> DecStr(GopSize(h))) @@
    ("-keyint_min" :> DecStr(GopSize(h))) @@
    ("-sc_threshold" :> "0") @@
    ("-force_key_frames" :> <<"expr:gte(t,n_forced*">> \o HalvesStr(h) \o <<")">>) @@
    ("-c:a" :> "aac") @@
    ("-b:a" :> "128k") @@
    ("-ac" :> "2") @@
    ("-ar" :> "48000") @@
    ("-hls_time" :> HalvesStr(h)) @@
    ("-hls_playlist_type" :> "vod") @@
    ("-hls_flags" :> "independent_segments") @@
    ("-hls_list_size" :> "0") @@
    ("-start_number" :> "0") @@
    ("-hls_segment_filename" :> "/tmp/encoding/output/ts/%03d.ts") @@
    ("-f" :> "hls") @@
    ("output" :> "/tmp/encoding/output/master.m3u8")

\* The software list whatever the detector said.
EncoderArgsSoftware(useNv, quality, h) == ArgsSW(quality, h)

\* if (useNVENC) args = [...] else args = [...]
EncoderArgs(useNv, quality, h) == IF useNv THEN ArgsHW(quality, h) ELSE ArgsSW(quality, h)

\* encodingMethod of the object a successful encode resolves with.
EncodingMethod(useNv) == IF useNv THEN "NVENC GPU" ELSE "Software x264"

\* handleVideoEncoding passes quality and segments.duration, and not
\* videoInfo, to encodeWithNVENC, which builds the argument list for the
\* path the detector chose.
PlanEncode ==
    /\ fnIn.fn = "encodeArgs"
    /\ fnOut = NoCall
    /\ fnOut' = [fn |-> "encodeArgs",
                 args |-> EncoderArgs(fnIn.useNVENC, fnIn.quality, fnIn.half),
                 encodingMethod |-> EncodingMethod(fnIn.useNVENC)]
    /\ UNCHANGED <<fnIn, pipeVars>>

ArgsInit ==
    /\ Idle
    /\ fnIn \in [fn : {"encodeArgs"}, quality : Qualities, half : SegHalves,
                 fps : ProbedFps, useNVENC : BOOLEAN]
    /\ fnOut = NoCall

SpecArgs == ArgsInit /\ [][PlanEncode]_vars

\* ---------------------------------------------------- published names
\* The segment numbers ffmpeg may have used, the longest directory listing
\* and duration list studied, the decoy extensions drawn, the destination
\* identifiers and the duration texts of the encoder's playlist.
SeqNums == {0, 1, 2}
MaxListed == Cardinality(SeqNums)
MaxDurs == 3
FakeExts == {".png", ".js"}
Md5Ids == {"a1b2", "ffee"}
DurTexts ==
    {<<"2", ".", "0", "0", "0", "0", "0", "0">>, <<"1", ".", "4", "8", "0", "0", "0", "0">>}
CdnDomain == "cdn.example"

IsDigit(c) == \E d \in 0..9 : Digit(d) = c
DigitVal(c) == CHOOSE d \in 0..9 : Digit(d) = c
NaN == 0 - 1

RECURSIVE DigitsVal(_)
DigitsVal(cs) ==
    IF cs = <<>> THEN 0
    ELSE 10 * DigitsVal(SubSeq(cs, 1, Len(cs) - 1)) + DigitVal(cs[Len(cs)])

\* The longest prefix of cs made of digits.
LeadDigits(cs) ==
    SubSeq(cs, 1, CHOOSE k \in 0..Len(cs) :
                      /\ \A i \in 1..k : IsDigit(cs[i])
                      /\ k < Len(cs) => ~IsDigit(cs[k + 1]))

\* parseInt(cs, 10): the leading digits, NaN when there is none.
ParseInt(cs) == IF LeadDigits(cs) = <<>> THEN NaN ELSE DigitsVal(LeadDigits(cs))

\* The name ffmpeg gives segment n for the pattern %03d.ts.
Pad3(n) ==
    IF n < 10 THEN <<"0", "0">> \o DecStr(n)
    ELSE IF n < 100 THEN <<"0">> \o DecStr(n)
    ELSE DecStr(n)

TsName(n) == Pad3(n) \o <<".ts">>

\* path.parse(tsFile).name: the name without its last extension.
BaseName(name) == SubSeq(name, 1, Len(name) - 1)

\* fileName.split('.')[0]: the characters before the first point.
\* A name is digits followed by extensions, and every extension begins with
\* a point.
SplitDot0(name) ==
    SubSeq(name, 1, (CHOOSE k \in 1..(Len(name) + 1) :
                         /\ \A i \in 1..(k - 1) : IsDigit(name[i])
                         /\ k <= Len(name) => ~IsDigit(name[k])) - 1)

\* The loop body with the remote name used as the key, outside any folder.
UploadedFlat(seq, tsFile, fake, ext, md5) ==
    LET remoteFileName == IF fake THEN BaseName(tsFile) \o <<ext>> ELSE tsFile
    IN  [seq |-> seq,
         fileName |-> remoteFileName,
         key |-> remoteFileName,
         url |-> <<"https://", CdnDomain, "/">> \o remoteFileName]

\* One pass of the loop of uploadSegmentsToOSS for tsFile with the drawn
\* extension ext: the remote name, the key put, and the entry pushed.
\* seq is the number ffmpeg gave the file.
Uploaded(seq, tsFile, fake, ext, md5) ==
    LET remoteFileName == IF fake THEN BaseName(tsFile) \o <<ext>> ELSE tsFile
        remotePath == <<md5, "/">> \o remoteFileName
    IN  [seq |-> seq,
         fileName |-> remoteFileName,
         key |-> remotePath,
         url |-> <<"https://", CdnDomain, "/">> \o remotePath]

\* A list left in the order of upload.
KeepOrder(segments) == segments

\* numA - numB of the comparator; NaN compares as equal.
Compare(a, b) ==
    LET numA == ParseInt(SplitDot0(a.fileName))
        numB == ParseInt(SplitDot0(b.fileName))
    IN  IF numA = NaN \/ numB = NaN THEN 0 ELSE numA - numB

\* x put after the last entry of the sorted list that does not compare
\* greater than x.
InsertSorted(sorted, x) ==
    LET k == CHOOSE k \in 0..Len(sorted) :
                 /\ \A i \in 1..k : Compare(sorted[i], x) <= 0
                 /\ k < Len(sorted) => Compare(sorted[k + 1], x) > 0
    IN  SubSeq(sorted, 1, k) \o <<x>> \o SubSeq(sorted, k + 1, Len(sorted))

\* segments.sort((a, b) => numA - numB): a stable sort by embedded number.
RECURSIVE SortSegments(_)
SortSegments(segments) ==
    IF segments = <<>> THEN <<>>
    ELSE InsertSorted(SortSegments(SubSeq(segments, 1, Len(segments) - 1)),
                      segments[Len(segments)])

\* The playlist ffmpeg writes for the durations durs of segments numbered
\* from 0, as lines of tokens.
RECURSIVE EncoderEntries(_, _)
EncoderEntries(durs, n) ==
    IF durs = <<>> THEN <<>>
    ELSE <<(<<"#EXTINF:">> \o durs[1] \o <<",">>), TsName(n)>>
         \o EncoderEntries(SubSeq(durs, 2, Len(durs)), n + 1)

EncoderPlaylist(durs, h) ==
    <<(<<"#EXTM3U">>), (<<"#EXT-X-VERSION:", "3">>),
      (<<"#EXT-X-TARGETDURATION:">> \o DecStr((h + 1) \div 2)),
      (<<"#EXT-X-MEDIA-SEQUENCE:", "0">>), (<<"#EXT-X-PLAYLIST-TYPE:", "VOD">>)>>
    \o EncoderEntries(durs, 0)
    \o <<(<<"#EXT-X-ENDLIST">>)>>

\* The text between "#EXTINF:" and the comma when it matches [0-9.]+ .
ExtinfMatch(line) ==
    /\ Len(line) >= 3
    /\ line[1] = "#EXTINF:"
    /\ line[Len(line)] = ","
    /\ \A i \in 2..(Len(line) - 1) : IsDigit(line[i]) \/ line[i] = "."

\* originalDurations: the duration text of every #EXTINF line, in order.
RECURSIVE OriginalDurations(_)
OriginalDurations(lines) ==
    IF lines = <<>> THEN <<>>
    ELSE (IF ExtinfMatch(lines[1])
          THEN <<SubSeq(lines[1], 2, Len(lines[1]) - 1)>>
          ELSE <<>>)
         \o OriginalDurations(SubSeq(lines, 2, Len(lines)))

\* targetDuration: parseInt of the digits after #EXT-X-TARGETDURATION: in
\* the original when there is such a line, else segmentDuration || 2;
\* rendered by the template string.
TargetDuration(lines, h) ==
    LET hits == {i \in 1..Len(lines) :
                    /\ lines[i][1] = "#EXT-X-TARGETDURATION:"
                    /\ LeadDigits(SubSeq(lines[i], 2, Len(lines[i]))) # <<>>}
    IN  IF hits # {}
        THEN DecStr(ParseInt(SubSeq(lines[CHOOSE i \in hits : \A k \in hits : i <= k], 2,
                                    Len(lines[CHOOSE i \in hits : \A k \in hits : i <= k]))))
        ELSE IF h = 0 THEN <<"2">> ELSE HalvesStr(h)

\* A header that starts the media sequence at 1.
PlaylistHeaderFromOne(td) ==
    <<(<<"#EXTM3U">>), (<<"#EXT-X-VERSION:", "3">>),
      (<<"#EXT-X-TARGETDURATION:">> \o td), (<<"#EXT-X-MEDIA-SEQUENCE:", "1">>)>>

\* The first four lines of playlistContent.
PlaylistHeader(td) ==
    <<(<<"#EXTM3U">>), (<<"#EXT-X-VERSION:", "3">>),
      (<<"#EXT-X-TARGETDURATION:">> \o td), (<<"#EXT-X-MEDIA-SEQUENCE:", "0">>)>>

\* The duration of the entry at index (0-based in the code, 1-based here).
EntryDuration(durations, index, h) ==
    IF index <= Len(durations) THEN durations[index]
    ELSE HalvesStr(h) \o <<".", "0", "0", "0", "0", "0", "0">>

\* segments.forEach: "#EXTINF:duration,\nurl\n" for each sorted segment.
RECURSIVE PlaylistEntries(_, _, _, _)
PlaylistEntries(sorted, durations, index, h) ==
    IF index > Len(sorted) THEN <<>>
    ELSE <<(<<"#EXTINF:">> \o EntryDuration(durations, index, h) \o <<",">>),
           sorted[index].url>>
         \o PlaylistEntries(sorted, durations, index + 1, h)

\* playlistContent of createAndUploadM3U8ToOSS, as lines of tokens; the
\* text ends with the end-of-list line, without a line break after it.
PlaylistContent(segments, original, h) ==
    PlaylistHeader(TargetDuration(original, h))
    \o PlaylistEntries(SortSegments(segments), OriginalDurations(original), 1, h)
    \o <<(<<"#EXT-X-ENDLIST">>)>>

\* The sequences without repetition over S of length at most n.
Orders(S, n) ==
    {o \in UNION {[1..k -> S] : k \in 0..n} : \A i, k \in DOMAIN o : o[i] = o[k] => i = k}

\* uploadSegmentsToOSS over the listing fnIn.listing in directory order:
\* every put succeeded.
NameSegments ==
    /\ fnIn.fn = "publish"
    /\ fnOut = NoCall
    /\ fnOut' = [fn |-> "uploaded",
                 segments |-> [i \in DOMAIN fnIn.listing |->
                                  Uploaded(fnIn.listing[i], TsName(fnIn.listing[i]),
                                           fnIn.fake, fnIn.exts[i], fnIn.md5)],
                 keys |-> {Uploaded(fnIn.listing[i], TsName(fnIn.listing[i]),
                                    fnIn.fake, fnIn.exts[i], fnIn.md5).key :
                               i \in DOMAIN fnIn.listing}]
    /\ UNCHANGED <<fnIn, pipeVars>>

\* createAndUploadM3U8ToOSS: the list is sorted in place, the playlist is
\* built and put under m3u8Path.
BuildPlaylist ==
    /\ fnIn.fn = "publish"
    /\ fnOut.fn = "uploaded"
    /\ fnOut' = [fn |-> "playlist",
                 segments |-> SortSegments(fnOut.segments),
                 keys |-> fnOut.keys \cup {<<fnIn.md5, "/", "master.m3u8">>},
                 content |-> PlaylistContent(fnOut.segments, fnIn.original, fnIn.half)]
    /\ UNCHANGED <<fnIn, pipeVars>>

PublishInit ==
    /\ Idle
    /\ \E listing \in Orders(SeqNums, MaxListed), fake \in BOOLEAN, md5 \in Md5Ids,
          durs \in UNION {[1..k -> DurTexts] : k \in 0..MaxDurs}, h \in {3, 4} :
          \E exts \in [DOMAIN listing -> FakeExts] :
              fnIn = [fn |-> "publish", listing |-> listing, fake |-> fake, exts |-> exts,
                      md5 |-> md5, durs |-> durs, original |-> EncoderPlaylist(durs, h),
                      half |-> h]
    /\ fnOut = NoCall

\* The result handleVideoEncoding builds after both publish calls: the
\* fields of output, and the top-level publication fields, which are added
\* only when uploadedSegments is not empty.  uploadedSegments is the array
\* createAndUploadM3U8ToOSS sorted in place.
ReportResult ==
    /\ fnIn.fn = "publish"
    /\ fnOut.fn = "playlist"
    /\ LET base == [status |-> "completed",
                    segmentCount |-> Len(fnIn.listing),
                    outputSegments |-> fnOut.segments]
           published == [segments |-> fnOut.segments,
                         totalSegments |-> Len(fnOut.segments),
                         m3u8Url |-> <<"https://", CdnDomain, "/", fnIn.md5, "/",
                                       "master.m3u8">>,
                         uploadedToStorage |-> TRUE]
       IN  fnOut' = [fn |-> "result",
                     result |-> IF Len(fnOut.segments) > 0 THEN published @@ base ELSE base]
                    @@ fnOut
    /\ UNCHANGED <<fnIn, pipeVars>>

SpecPublish == PublishInit /\ [][NameSegments \/ BuildPlaylist \/ ReportResult]_vars

\* ------------------------------------------------ keys of several jobs
\* What a request that publishes gives the two publish calls: md5DriveId,
\* the listed segments (at most one here) and the extension drawn.
JobPublishInputs ==
    {[md5 |-> m, listing |-> l, fake |-> f, ext |-> x] :
        m \in Md5Ids, l \in Orders(SeqNums, 1), f \in BOOLEAN, x \in FakeExts}

\* The keys under which a job with input in puts objects: one per listed
\* segment (remotePath) and the playlist (m3u8Path).
KeysPut(in) ==
    {Uploaded(in.listing[i], TsName(in.listing[i]), in.fake, in.ext, in.md5).key :
         i \in DOMAIN in.listing}
    \cup {<<in.md5, "/", "master.m3u8">>}

\* uploadSegmentsToOSS and createAndUploadM3U8ToOSS of job k, every put
\* succeeding; the jobs publish in any order.
PublishJob(k) ==
    /\ fnIn.fn = "jobs"
    /\ k \notin fnOut.done
    /\ fnOut' = [fn |-> "jobs",
                 done |-> fnOut.done \cup {k},
                 keys |-> [fnOut.keys EXCEPT ![k] = KeysPut(fnIn.jobs[k])]]
    /\ UNCHANGED <<fnIn, pipeVars>>

KeysInit ==
    /\ Idle
    /\ \E jobs \in [Jobs -> JobPublishInputs] : fnIn = [fn |-> "jobs", jobs |-> jobs]
    /\ fnOut = [fn |-> "jobs", done |-> {}, keys |-> [k \in Jobs |-> {}]]

SpecKeys == KeysInit /\ [][\E k \in Jobs : PublishJob(k)]_vars

\* ------------------------------------------------ one segment upload
\* The array fakeExtensions of uploadSegmentsToOSS.
FakeExtensions ==
    <<".png", ".jpg", ".webp", ".css", ".js", ".ico", ".svg", ".gif", ".txt", ".html">>

\* Sizes of a local segment file, in bytes.
FileSizes == {0, 1}

\* String.prototype.toLowerCase on an extension.
ToLowerCase(ext) ==
    IF ext = ".PNG" THEN ".png" ELSE IF ext = ".JPG" THEN ".jpg" ELSE ext

\* path.extname(fileName): the last extension of the name.
ExtName(fileName) == fileName[Len(fileName)]

\* The object literal contentTypes.
ContentTypes ==
    (".jpg" :> "image/jpeg") @@
    (".jpeg" :> "image/jpeg") @@
    (".png" :> "image/png") @@
    (".webp" :> "image/webp") @@
    (".gif" :> "image/gif") @@
    (".svg" :> "image/svg+xml") @@
    (".css" :> "text/css") @@
    (".js" :> "application/javascript") @@
    (".html" :> "text/html") @@
    (".txt" :> "text/plain") @@
    (".ico" :> "image/x-icon")

\* A lookup that always takes the fallback.
AlwaysOctetStream(fileName) == "application/octet-stream"

\* getContentTypeForFakeExtension: contentTypes[ext] || 'application/octet-stream'.
GetContentTypeForFakeExtension(fileName) ==
    IF ToLowerCase(ExtName(fileName)) \in DOMAIN ContentTypes
    THEN ContentTypes[ToLowerCase(ExtName(fileName))]
    ELSE "application/octet-stream"

\* A record of the upload with a size one byte larger than the file.
RecordedPadded(entry, fileSize) == entry @@ [size |-> fileSize + 1]

\* uploadedSegments.push({..., size: fileSize}): the size read by statSync
\* before the put.
Recorded(entry, fileSize) == entry @@ [size |-> fileSize]

\* One pass of the loop of uploadSegmentsToOSS: draw is
\* Math.floor(Math.random() * fakeExtensions.length); the put reads the
\* local file and leaves it as it is.
PutSegment ==
    /\ fnIn.fn = "put"
    /\ fnOut = NoCall
    /\ LET tsFile == TsName(fnIn.seq)
           entry == Uploaded(fnIn.seq, tsFile, fnIn.fake,
                             FakeExtensions[fnIn.draw + 1], fnIn.md5)
       IN  fnOut' = [fn |-> "put",
                     entry |-> Recorded(entry, fnIn.size),
                     contentType |-> IF fnIn.fake
                                     THEN GetContentTypeForFakeExtension(entry.fileName)
                                     ELSE "video/mp2t",
                     localName |-> tsFile,
                     localSize |-> fnIn.size]
    /\ UNCHANGED <<fnIn, pipeVars>>

PutInit ==
    /\ Idle
    /\ fnIn \in [fn : {"put"}, seq : SeqNums, fake : BOOLEAN,
                 draw : 0..(Len(FakeExtensions) - 1), md5 : Md5Ids, size : FileSizes]
    /\ fnOut = NoCall

SpecPut == PutInit /\ [][PutSegment]_vars

\* ------------------------------------------------- request validation
\* The values a string field of the request may have: not sent, the empty
\* string, a non-empty string.
FieldValues == {"absent", "", "value"}

\* The truthiness JavaScript gives a field value in !x and x && y.
Truthy(v) == v \notin {"absent", ""}

\* handleVideoEncoding up to the first mkdirSync: the request is rejected
\* (an Error is thrown) or accepted.
Validate ==
    /\ fnIn.fn = "validate"
    /\ fnOut = NoCall
    /\ fnOut' = [fn |-> "validate",
                 rejected |-> Invalid(Truthy(fnIn.videoUrl), Truthy(fnIn.driveId),
                                      Truthy(fnIn.googleToken), Truthy(fnIn.md5DriveId)),
                 publish |-> Truthy(fnIn.ossConfig) /\ fnIn.uploadToStorage]
    /\ UNCHANGED <<fnIn, pipeVars>>

\* A choice of the source that prefers the URL.
ChooseSourceUrlFirst ==
    /\ fnIn.fn = "validate"
    /\ fnOut.fn = "validate"
    /\ ~fnOut.rejected
    /\ fnOut' = [fn |-> "fetch",
                 fetched |-> IF Truthy(fnIn.videoUrl) THEN {"url"} ELSE {"drive"}]
                @@ fnOut
    /\ UNCHANGED <<fnIn, pipeVars>>

\* STEP 1 of an accepted request: if (driveId) the drive download is
\* called, else the download of videoUrl; fetched is what was called.
ChooseSource ==
    /\ fnIn.fn = "validate"
    /\ fnOut.fn = "validate"
    /\ ~fnOut.rejected
    /\ fnOut' = [fn |-> "fetch",
                 fetched |-> IF Truthy(fnIn.driveId) THEN {"drive"} ELSE {"url"}]
                @@ fnOut
    /\ UNCHANGED <<fnIn, pipeVars>>

ValidateInit ==
    /\ Idle
    /\ fnIn \in [fn : {"validate"}, videoUrl : FieldValues, driveId : FieldValues,
                 googleToken : {"absent", "value"}, md5DriveId : FieldValues,
                 ossConfig : {"absent", "value"}, uploadToStorage : BOOLEAN]
    /\ fnOut = NoCall

SpecValidate == ValidateInit /\ [][Validate \/ ChooseSource]_vars

\* ------------------------------------------------------ frame rate
\* A number is held as <<n, d>> for n / d: <<0, 0>> is NaN, <<n, 0>> with
\* n > 0 is Infinity, and a value is falsy when n = 0 (zero or NaN).

\* String.prototype.split('/') on a string held as its characters.
RECURSIVE SplitSlash(_)
SplitSlash(cs) ==
    IF \E i \in 1..Len(cs) : cs[i] = "/"
    THEN LET k == CHOOSE i \in 1..Len(cs) : cs[i] = "/" /\ \A m \in 1..(i - 1) : cs[m] # "/"
         IN  <<SubSeq(cs, 1, k - 1)>> \o SplitSlash(SubSeq(cs, k + 1, Len(cs)))
    ELSE <<cs>>

\* parseFloat on a string of digits and letters: the leading digits, NaN
\* when there is none.
ParseFloat(cs) == IF LeadDigits(cs) = <<>> THEN <<0, 0>> ELSE <<DigitsVal(LeadDigits(cs)), 1>>

\* The division done whatever the denominator is.
QuotientUnguarded(num, den) == <<num[1] * den[2], num[2] * den[1]>>

\* den ? num/den : 0
Quotient(num, den) ==
    IF den[1] # 0 THEN <<num[1] * den[2], num[2] * den[1]>> ELSE <<0, 1>>

\* The fps field of getVideoInfo for videoStream?.r_frame_rate: present is
\* whether there is a video stream with that field, cs its characters.
Fps(present, cs) ==
    LET fr == SplitSlash(IF present /\ cs # <<>> THEN cs ELSE <<"0", "/", "1">>)
        num == ParseFloat(IF fr[1] # <<>> THEN fr[1] ELSE <<"0">>)
        den == ParseFloat(IF Len(fr) >= 2 /\ fr[2] # <<>> THEN fr[2] ELSE <<"1">>)
        q == Quotient(num, den)
    IN  IF q[1] # 0 THEN q ELSE <<FallbackFps, 1>>

\* The callback of ffprobe without error: the fps of the resolved info.
ResolveFps ==
    /\ fnIn.fn = "fps"
    /\ fnOut = NoCall
    /\ fnOut' = [fn |-> "fps", fps |-> Fps(fnIn.present, fnIn.rate)]
    /\ UNCHANGED <<fnIn, pipeVars>>

\* r_frame_rate: a numerator, then nothing or a slash and a denominator;
\* or no such field.
FpsInit ==
    /\ Idle
    /\ LET nums == {<<>>, <<"0">>, <<"1">>, <<"2", "4">>, <<"2", "5">>, <<"3", "0">>,
                    <<"5", "0">>, <<"6", "0">>, <<"1", "2", "0">>, <<"a">>}
           dens == {<<>>, <<"0">>, <<"1">>, <<"2">>, <<"a">>}
       IN  \/ \E n \in nums : fnIn = [fn |-> "fps", present |-> TRUE, rate |-> n]
           \/ \E n \in nums, d \in dens :
                  fnIn = [fn |-> "fps", present |-> TRUE, rate |-> n \o <<"/">> \o d]
           \/ fnIn = [fn |-> "fps", present |-> FALSE, rate |-> <<>>]
    /\ fnOut = NoCall

SpecFps == FpsInit /\ [][ResolveFps]_vars

\* ---------------------------------------------------------- probe
\* The first stream with codec_type 'video' (streams.find); a record of
\* codec_type "undefined" stands for undefined when there is none.
VideoStream(streams) ==
    IF \E i \in 1..Len(streams) : streams[i].codec_type = "video"
    THEN streams[CHOOSE i \in 1..Len(streams) :
                     /\ streams[i].codec_type = "video"
                     /\ \A m \in 1..(i - 1) : streams[m].codec_type # "video"]
    ELSE [codec_type |-> "undefined"]

\* The callback of ffmpeg.ffprobe: reject(err), or resolve with the fields
\* read through videoStream?. whether or not there is a video stream.
GetVideoInfo ==
    /\ fnIn.fn = "probe"
    /\ fnOut = NoCall
    /\ fnOut' = IF fnIn.err
                THEN [fn |-> "probed", outcome |-> "rejected"]
                ELSE LET vs == VideoStream(fnIn.streams)
                     IN  [fn |-> "probed", outcome |-> "resolved",
                          width |-> IF vs.codec_type = "undefined" THEN "undefined"
                                    ELSE vs.width,
                          fps |-> IF vs.codec_type = "undefined" THEN Fps(FALSE, <<>>)
                                  ELSE Fps(TRUE, vs.r_frame_rate)]
    /\ UNCHANGED <<fnIn, pipeVars>>

\* handleVideoEncoding after await getVideoInfo: a rejection leaves through
\* the finally block, a resolution goes on to encodeWithNVENC.
AfterProbe ==
    /\ fnIn.fn = "probe"
    /\ fnOut.fn = "probed"
    /\ fnOut' = [fnOut EXCEPT !.fn = IF fnOut.outcome = "resolved"
                                     THEN "encodeStarted" ELSE "failed"]
    /\ UNCHANGED <<fnIn, pipeVars>>

\* What ffprobe reports: an error, or up to two streams.
ProbeInit ==
    /\ Idle
    /\ LET Streams == [codec_type : {"video", "audio", "subtitle"},
                       width : {"640", "1920"},
                       r_frame_rate : {<<"2", "5", "/", "1">>, <<"0", "/", "0">>}]
       IN  \E err \in BOOLEAN, streams \in UNION {[1..k -> Streams] : k \in 0..2} :
               /\ \A i \in DOMAIN streams :
                      streams[i].codec_type # "video" =>
                          streams[i].width = "640" /\ streams[i].r_frame_rate = <<"0", "/", "0">>
               /\ fnIn = [fn |-> "probe", err |-> err, streams |-> streams]
    /\ fnOut = NoCall

SpecProbe == ProbeInit /\ [][GetVideoInfo \/ AfterProbe]_vars

\* ------------------------------------------------- target duration
\* The original playlists createAndUploadM3U8ToOSS may read: what the
\* encoder wrote, with its target-duration line or without it, for up to
\* two segments whose durations are near the configured one.  The encoder
\* declares a target no smaller than the durations it lists.
TargetInit ==
    /\ Idle
    /\ LET texts == DurTexts \cup {<<"2", ".", "0", "0", "2", "0", "0", "0">>}
           Untagged(lines) == SubSeq(lines, 1, 2) \o SubSeq(lines, 4, Len(lines))
       IN  \E tagged \in BOOLEAN, h \in {3, 4, 6}, n \in 0..2,
              durs \in UNION {[1..k -> texts] : k \in 0..2} :
               /\ tagged => \A i \in DOMAIN durs : durs[i] \in DurTexts
               /\ fnIn = [fn |-> "target", tagged |-> tagged, half |-> h, count |-> n,
                       original |-> IF tagged THEN EncoderPlaylist(durs, h)
                                    ELSE Untagged(EncoderPlaylist(durs, h))]
    /\ fnOut = NoCall

\* createAndUploadM3U8ToOSS for fnIn.count uploaded segments.
DeclareTarget ==
    /\ fnIn.fn = "target"
    /\ fnOut = NoCall
    /\ fnOut' = [fn |-> "target",
                 content |-> PlaylistContent(
                                 [i \in 1..fnIn.count |->
                                     Uploaded(i - 1, TsName(i - 1), FALSE, ".ts", "a1b2")],
                                 fnIn.original, fnIn.half)]
    /\ UNCHANGED <<fnIn, pipeVars>>

SpecTarget == TargetInit /\ [][DeclareTarget]_vars

\* ------------------------------------------------------ health check
\* handleHealthCheck.  fnOut holds healthInfo (the two availability flags
\* and the two error strings, "unset" while not assigned), the two children,
\* the two 5 s timers and where the function is: awaiting the ffmpeg check,
\* awaiting the nvidia-smi check, returned, or ended with the process.

\* The second check starts: spawn nvidia-smi and set its timer.  A child
\* that cannot be started emits 'error', which has no listener.
StartGpuCheck(h, launched) ==
    [h EXCEPT !.at = IF launched THEN "nvidia" ELSE "crashed",
              !.sm = IF launched THEN "running" ELSE "spawnfail",
              !.smTimer = "armed"]

\* The call up to its first await: healthInfo is built, ffmpeg -version is
\* spawned and its timer set.
HealthStart(launched) ==
    /\ fnIn.fn = "health"
    /\ fnOut = NoCall
    /\ fnOut' = [fn |-> "health",
                 at |-> IF launched THEN "ffmpeg" ELSE "crashed",
                 ff |-> IF launched THEN "running" ELSE "spawnfail",
                 ffTimer |-> "armed",
                 sm |-> "none",
                 smTimer |-> "off",
                 ffmpeg_available |-> "unset",
                 ffmpeg_error |-> "unset",
                 gpu_available |-> "unset",
                 gpu_error |-> "unset",
                 ffmpeg_version |-> "unset",
                 nvidia_smi |-> "unset"]
    /\ UNCHANGED <<fnIn, pipeVars>>

\* proc.on('close') of the ffmpeg check: the flag is assigned whether or
\* not the promise is still pending; resolve or reject then acts only on a
\* pending promise, and the catch records the error.  version is what the
\* pattern found in the output, 'unknown' when it found nothing.
FfClose(code, version, launched) ==
    /\ fnOut.fn = "health"
    /\ fnOut.at # "crashed"
    /\ fnOut.ff = "running"
    /\ LET closed == [fnOut EXCEPT !.ff = "exited",
                                   !.ffmpeg_available = IF code = 0 THEN "true" ELSE "false",
                                   !.ffmpeg_version = IF code = 0 THEN version ELSE @]
       IN  fnOut' = IF fnOut.at # "ffmpeg" THEN closed
                    ELSE IF code = 0 THEN StartGpuCheck(closed, launched)
                    ELSE StartGpuCheck([closed EXCEPT !.ffmpeg_error = "FFmpeg not available"],
                                       launched)
    /\ UNCHANGED <<fnIn, pipeVars>>

\* The timer of the ffmpeg check, which is never cleared and kills nothing.
FfTimeout(launched) ==
    /\ fnOut.fn = "health"
    /\ fnOut.at # "crashed"
    /\ fnOut.ffTimer = "armed"
    /\ LET fired == [fnOut EXCEPT !.ffTimer = "fired"]
       IN  fnOut' = IF fnOut.at # "ffmpeg" THEN fired
                    ELSE StartGpuCheck([fired EXCEPT !.ffmpeg_available = "false",
                                                     !.ffmpeg_error = "FFmpeg check timeout"],
                                       launched)
    /\ UNCHANGED <<fnIn, pipeVars>>

\* proc.on('close') of the nvidia-smi check; a pending promise settles and
\* healthInfo is returned.  output is the trimmed stdout of the child.
SmClose(code, output) ==
    /\ fnOut.fn = "health"
    /\ fnOut.at # "crashed"
    /\ fnOut.sm = "running"
    /\ LET closed == [fnOut EXCEPT !.sm = "exited",
                                   !.gpu_available = IF code = 0 THEN "true" ELSE "false",
                                   !.nvidia_smi = IF code = 0 THEN output ELSE @]
       IN  fnOut' = IF fnOut.at # "nvidia" THEN closed
                    ELSE IF code = 0 THEN [closed EXCEPT !.at = "returned"]
                    ELSE [closed EXCEPT !.at = "returned", !.gpu_error = "nvidia-smi failed"]
    /\ UNCHANGED <<fnIn, pipeVars>>

\* The timer of the nvidia-smi check.  It is set no earlier than the timer
\* of the ffmpeg check and for the same delay, so it fires after it.
SmTimeout ==
    /\ fnOut.fn = "health"
    /\ fnOut.at # "crashed"
    /\ fnOut.smTimer = "armed"
    /\ fnOut.ffTimer = "fired"
    /\ LET fired == [fnOut EXCEPT !.smTimer = "fired"]
       IN  fnOut' = IF fnOut.at # "nvidia" THEN fired
                    ELSE [fired EXCEPT !.at = "returned",
                                       !.gpu_available = "false",
                                       !.gpu_error = "nvidia-smi timeout"]
    /\ UNCHANGED <<fnIn, pipeVars>>

HealthInit ==
    /\ Idle
    /\ fnIn = [fn |-> "health"]
    /\ fnOut = NoCall

SpecHealth ==
    /\ HealthInit
    /\ [][\/ \E launched \in BOOLEAN : HealthStart(launched)
          \/ \E code \in {0, 1}, version \in {"6.1", "7.0", "unknown"}, launched \in BOOLEAN :
                 FfClose(code, version, launched)
          \/ \E launched \in BOOLEAN : FfTimeout(launched)
          \/ \E code \in {0, 1}, output \in {"", "NVIDIA L4, 550.54, 23034 MiB"} :
                 SmClose(code, output)
          \/ SmTimeout]_vars

\* ------------------------------------------------------------ publish
\* The name the upload loop is at: tsFiles[i] in directory order.
NthSeg(S, i) == CHOOSE n \in S : Cardinality({m \in S : m < n}) = i

\* A loop that goes on to the playlist after its first put.
UploadOkEager(j) ==
    /\ ~crashed
    /\ pc[j] = "upload"
    /\ upIdx[j] < Cardinality(tsFiles[j])
    /\ segs[NthSeg(tsFiles[j], upIdx[j])] # NoJob
    /\ upIdx' = [upIdx EXCEPT ![j] = upIdx[j] + 1]
    /\ pc' = [pc EXCEPT ![j] = "m3u8"]
    /\ UNCHANGED <<crashed, fsVars, detVars, encVars, upload, tsFiles, result, wsAtReturn>>
    /\ UNCHANGED fnVars

\* client.put of tsFiles[i] succeeded; statSync(localPath) found the file.
UploadOk(j) ==
    /\ ~crashed
    /\ pc[j] = "upload"
    /\ upIdx[j] < Cardinality(tsFiles[j])
    /\ segs[NthSeg(tsFiles[j], upIdx[j])] # NoJob
    /\ upIdx' = [upIdx EXCEPT ![j] = upIdx[j] + 1]
    /\ pc' = [pc EXCEPT ![j] = IF upIdx[j] + 1 = Cardinality(tsFiles[j]) THEN "m3u8" ELSE "upload"]
    /\ UNCHANGED <<crashed, fsVars, detVars, encVars, upload, tsFiles, result, wsAtReturn>>
    /\ UNCHANGED fnVars

\* A failed put after which the call returns what was uploaded so far.
UploadFailPartial(j, rmOk) ==
    /\ ~crashed
    /\ pc[j] = "upload"
    /\ Finish(j, "completed", rmOk)
    /\ UNCHANGED <<crashed, detVars, encVars, upload, tsFiles, upIdx>>
    /\ UNCHANGED fnVars

\* statSync or client.put threw: uploadSegmentsToOSS rethrows.
UploadFail(j, rmOk) ==
    /\ ~crashed
    /\ pc[j] = "upload"
    /\ Finish(j, "error", rmOk)
    /\ UNCHANGED <<crashed, detVars, encVars, upload, tsFiles, upIdx>>
    /\ UNCHANGED fnVars

\* createAndUploadM3U8ToOSS: the put of the playlist succeeded (ok) or threw;
\* then the result is built and the finally block runs.
PutM3u8(j, ok, rmOk) ==
    /\ ~crashed
    /\ pc[j] = "m3u8"
    /\ Finish(j, IF ok THEN "completed" ELSE "error", rmOk)
    /\ UNCHANGED <<crashed, detVars, encVars, upload, tsFiles, upIdx>>
    /\ UNCHANGED fnVars

\* -------------------------------------------------------------- system
Request(j) ==
    \E videoUrl, driveId, googleToken, md5DriveId, wantUpload \in BOOLEAN :
        Receive(j, videoUrl, driveId, googleToken, md5DriveId, wantUpload)

\* The callbacks of a job in which every child process exits by itself
\* before a timer of the detector is due.
Prompt(j) ==
    \/ DownloadOk(j)
    \/ \E rmOk \in BOOLEAN : DownloadFail(j, rmOk)
    \/ \E launched \in BOOLEAN : ProbeOk(j, launched)
    \/ \E rmOk \in BOOLEAN : ProbeFail(j, rmOk)
    \/ \E code \in {0, 1, KilledCode}, gpu, launched \in BOOLEAN : NvClose(j, code, gpu, launched)
    \/ \E hasNvenc, launched \in BOOLEAN : EncqClose(j, hasNvenc, launched)
    \/ \E testCode \in {0, 1, KilledCode}, testError \in BOOLEAN : TestClose(j, testCode, testError)
    \/ EncWrite(j)
    \/ EncWriteList(j)
    \/ \E rmOk \in BOOLEAN : EncSpawnError(j, rmOk)
    \/ EncSpawnClose(j)
    \/ \E rmOk \in BOOLEAN : EncCloseFail(j, 1, rmOk)
    \/ \E rmOk \in BOOLEAN : EncCloseOk(j, rmOk)
    \/ UploadOk(j)
    \/ \E rmOk \in BOOLEAN : UploadFail(j, rmOk)
    \/ \E ok, rmOk \in BOOLEAN : PutM3u8(j, ok, rmOk)

\* The callbacks that need time to pass or a child that does not exit.
Timed(j) ==
    \/ Timer1(j)
    \/ Timer2(j)
    \/ Tick(j)
    \/ NvHang(j)
    \/ EncqHang(j)
    \/ TestHang(j)
    \/ EncStderr(j)
    \/ EncHang(j)
    \/ \E emitted \in BOOLEAN : SourceAbort(j, emitted)

NoneStarted == \A k \in Jobs : pc[k] = "idle"

\* One call of the handler on a fresh host, with every behaviour of its
\* child processes, timers, file system and storage.
Next ==
    \E j \in Jobs :
        \/ NoneStarted /\ Request(j)
        \/ Prompt(j)
        \/ Timed(j)

Spec == Init /\ [][Next]_vars

\* Calls of the handler on one host, one after another or overlapping, in
\* the runs where the children are prompt.
NextConc ==
    \E j \in Jobs :
        \/ Request(j)
        \/ Prompt(j)

SpecConc == Init /\ [][NextConc]_vars

NoneActive == \A k \in Jobs : ~Active(k)

\* A worker that takes the next job when the call before it has returned,
\* in the runs where the children are prompt.
NextSeq ==
    \E j \in Jobs :
        \/ NoneActive /\ Request(j)
        \/ Prompt(j)

SpecSeq == Init /\ [][NextSeq]_vars

\* The event loop runs every callback that is due, and a running child
\* that is not hung closes: each job's callbacks are taken when they stay
\* enabled.
FairSpec == Spec /\ \A j \in Jobs : WF_vars(Prompt(j) \/ Timed(j))

\* ------------------------------------------------------------- claims
Final == {"idle", "returned", "rejected"}

\* C1: once the workspace tree has been created, it is removed before the
\* call returns on every exit path: no call returns with the tree present.
WorkspaceRemovedOnReturn ==
    \A j \in Jobs : pc[j] = "returned" => wsAtReturn[j] = "absent"

\* C2: each job owns its workspace for its lifetime: while a job is running,
\* the input file, segments and playlist it wrote stay its own (no other
\* job's step overwrites or deletes them), and a segment listing never
\* returns a file written by another job that is still running.
WorkspaceExclusive ==
    [][\A k \in Jobs :
        (Active(k) /\ pc'[k] # "returned") =>
            /\ inputFile = k => inputFile' = k
            /\ playlist = k => playlist' = k
            /\ \A n \in SegNames : segs[n] = k => segs'[n] = k
            /\ \A j \in Jobs \ {k} :
                   tsFiles'[j] # tsFiles[j] => \A n \in tsFiles'[j] : segs[n] # k]_vars

\* C3: the detector settles Hardware only if, in that run, the device query
\* closed with code 0 and a GPU listed, the encoder listing named an nvenc
\* encoder and the smoke encode closed with code 0 and no recognised
\* failure message; every other settled verdict is Software.
HardwareOnlyIfAllPassed ==
    \A j \in Jobs :
        /\ verdict[j] = "hw" =>
               nvRes[j] = "ok" /\ encRes[j] = "ok" /\ testRes[j] = "ok" /\ by[j] = "testClose"
        /\ (verdict[j] # "pending" /\ "bad" \in {nvRes[j], encRes[j], testRes[j]}) =>
               verdict[j] = "sw"

HardwareSettled ==
    \E j \in Jobs : verdict[j] = "hw" /\ useNVENC[j] /\ pc[j] = "encode"

\* C4: the detector never hangs: whatever the probe children do, a detector
\* that has not settled still has a callback to come (its process is alive
\* and a timer is due), and once the device query's 5 s have passed the
\* verdict is settled.
DetectorNeverHangs ==
    \A j \in Jobs :
        /\ (pc[j] = "detect" /\ verdict[j] = "pending") => ENABLED (Prompt(j) \/ Timed(j))
        /\ (pc[j] = "detect" /\ t1[j] = "fired") => verdict[j] # "pending"

\* C5: no detection failure escapes the detector: when a probe child cannot
\* be launched the process goes on and the verdict is not Hardware.
DetectorFaulted(j) == "spawnfail" \in {nv[j], encq[j], test[j]}

DetectionFailureContained ==
    \A j \in Jobs : DetectorFaulted(j) => ~crashed /\ verdict[j] # "hw"

\* C6: each step has its own timeout and the timer of a step that already
\* passed cannot settle the verdict: a run in which all three steps passed,
\* each before its own timer was due, settles Hardware.
OwnTimeoutPerStep ==
    \A j \in Jobs :
        (nvRes[j] = "ok" /\ encRes[j] = "ok" /\ testRes[j] = "ok" /\ t2[j] # "fired") =>
            verdict[j] = "hw"

\* C7: the encoder child is bounded by a timeout and killed when it expires:
\* an encoder that never exits cannot keep the job from terminating, the
\* call returns a result or an error.
EncoderBounded ==
    \A j \in Jobs :
        (pc[j] = "encode" /\ encp[j] = "hung" /\ ~crashed) ~> (pc[j] = "returned" \/ crashed)

\* C8: when a timer settles the verdict, every probe child of that run that
\* is still running is killed: none is left running after the verdict.
NoProbeLeftRunning ==
    \A j \in Jobs :
        by[j] \in {"timer1", "timer2"} =>
            nv[j] \notin Live /\ encq[j] \notin Live /\ test[j] \notin Live

\* C9: the verdict is not cached: every job that reaches the encoder ran
\* its own detection (its own device query was spawned and one of its own
\* callbacks settled the verdict), and its verdict is Hardware exactly when
\* its own smoke encode passed and settled it.
ReprobedPerJob ==
    \A j \in Jobs :
        encp[j] # "none" =>
            /\ nv[j] # "none"
            /\ by[j] \in {"nvClose", "encqClose", "testClose", "timer1", "timer2"}
            /\ useNVENC[j] = (verdict[j] = "hw")
            /\ verdict[j] = "hw" <=> (by[j] = "testClose" /\ testRes[j] = "ok")

VerdictsDiffer ==
    \E j, k \in Jobs :
        /\ pc[j] = "returned" /\ verdict[j] = "hw"
        /\ verdict[k] = "sw" /\ nvRes[k] = "bad" /\ encp[k] # "none"

\* C10: encodeWithNVENC succeeds if and only if the encoder exits with code
\* 0; any other exit code rejects and fails the call, and what is reported
\* of the log is its tail, at most the last LogTail characters.
EncodeSucceedsIffExitZero ==
    \A j \in Jobs :
        /\ encOutcome[j] = "resolved" <=> (encp[j] = "exited" /\ encExit[j] = 0)
        /\ (encp[j] = "exited" /\ encExit[j] # 0) =>
               encOutcome[j] = "rejectedExit" /\ result[j] = "error"
        /\ encOutcome[j] = "rejectedExit" =>
               /\ reported[j][2] = LogsLen(j)
               /\ reported[j][2] - reported[j][1] = Min(LogsLen(j), LogTail)

LongLogTailReported ==
    \E j \in Jobs :
        /\ encOutcome[j] = "rejectedExit"
        /\ LogsLen(j) > LogTail
        /\ reported[j][1] > 0

\* C11: an encoder exit code of 0 with an empty segment directory is an
\* encode error: no call returns status 'completed' with segmentCount 0.
NoEmptySuccess ==
    \A j \in Jobs :
        (result[j] = "completed" /\ encExit[j] = 0) => Cardinality(tsFiles[j]) > 0

\* C12: an encoder that cannot be spawned fails encodeWithNVENC with the
\* spawn error, not with the exit-code error, and the outcome is settled
\* once: it stays the spawn error after the 'close' event of the same child
\* has rejected again, and the call has failed.
SpawnErrorSettledOnce ==
    \A j \in Jobs :
        encp[j] \in {"spawnfail", "spawnclosed"} =>
            encOutcome[j] = "rejectedSpawn" /\ result[j] = "error"

SpawnErrorThenClose ==
    \E j \in Jobs :
        encp[j] = "spawnclosed" /\ encExit[j] = SpawnErrno /\ pc[j] = "returned"

\* C13: on both paths the GOP size passed as -g and as -keyint_min is
\* round(fps * segmentDuration) for the frame rate of the probed input, and
\* the forced-keyframe expression has period segmentDuration.
GopFollowsProbedFps ==
    fnOut.fn = "encodeArgs" =>
        /\ fnOut.args["-g"] = DecStr(MathRound(fnIn.fps * fnIn.half))
        /\ fnOut.args["-keyint_min"] = DecStr(MathRound(fnIn.fps * fnIn.half))
        /\ fnOut.args["-force_key_frames"] =
               <<"expr:gte(t,n_forced*">> \o HalvesStr(fnIn.half) \o <<")">>

\* C14: a tier value other than low, medium and high yields exactly the
\* argument list of tier medium, on the hardware and on the software path.
UnknownTierIsMedium ==
    (fnOut.fn = "encodeArgs" /\ fnIn.quality \notin {"low", "medium", "high"}) =>
        fnOut.args = EncoderArgs(fnIn.useNVENC, "medium", fnIn.half)

\* C15: for the same tier and segment duration the hardware and the
\* software list agree on the audio arguments, the GOP arguments (nominal
\* and minimum keyframe interval, forced-keyframe expression) and the HLS
\* arguments, each of which is present in both.
ContractFlags ==
    {"-c:a", "-b:a", "-ac", "-ar",
     "-g", "-keyint_min", "-force_key_frames",
     "-hls_time", "-hls_playlist_type", "-hls_flags", "-hls_list_size",
     "-start_number", "-hls_segment_filename", "-f", "output"}

EntryCount == (Len(fnOut.content) - 5) \div 2
EntryDur(i) == SubSeq(fnOut.content[3 + 2 * i], 2, Len(fnOut.content[3 + 2 * i]) - 1)
EntryUri(i) == fnOut.content[4 + 2 * i]
ExtinfLines == {i \in 1..Len(fnOut.content) : fnOut.content[i][1] = "#EXTINF:"}

\* The uploaded segment with the i-th smallest embedded sequence number.
IthSmallest(i) ==
    CHOOSE k \in DOMAIN fnIn.listing :
        Cardinality({m \in DOMAIN fnIn.listing : fnIn.listing[m] < fnIn.listing[k]}) = i - 1

UrlOfListed(k) ==
    Uploaded(fnIn.listing[k], TsName(fnIn.listing[k]), fnIn.fake, fnIn.exts[k], fnIn.md5).url

\* C16: round trip: for an encoder playlist with N durations and N uploaded
\* segments in any upload order and with any decoy extensions, the
\* reconstructed playlist has exactly N EXTINF entries, the i-th with the
\* i-th original duration text and the URL of the segment with the i-th
\* smallest sequence number.
PlaylistRoundTrip ==
    (fnOut.fn = "playlist" /\ Len(fnIn.durs) = Len(fnIn.listing)) =>
        /\ Cardinality(ExtinfLines) = Len(fnIn.durs)
        /\ EntryCount = Len(fnIn.durs)
        /\ \A i \in 1..Len(fnIn.durs) :
               /\ EntryDur(i) = fnIn.durs[i]
               /\ EntryUri(i) = UrlOfListed(IthSmallest(i))

ReorderedRoundTrip ==
    /\ fnOut.fn = "playlist"
    /\ Len(fnIn.durs) = MaxListed
    /\ Len(fnIn.listing) = MaxListed
    /\ fnIn.listing[1] > fnIn.listing[2]
    /\ fnIn.fake
    /\ fnIn.durs[1] # fnIn.durs[2]

\* The decimal numerals of h / 2 seconds.
Numerals(h) ==
    {HalvesStr(h),
     DecStr(h \div 2) \o <<".", (IF h % 2 = 0 THEN "0" ELSE "5"), "0", "0", "0", "0", "0">>}

\* C17: the entry at sorted index i carries the i-th original duration when
\* the original has one and the configured segment duration otherwise, and
\* there are as many EXTINF entries as uploaded segments whatever the
\* length of the original duration list.
DurationByIndexOrDefault ==
    fnOut.fn = "playlist" =>
        /\ EntryCount = Len(fnIn.listing)
        /\ Cardinality(ExtinfLines) = Len(fnIn.listing)
        /\ \A i \in 1..Len(fnIn.listing) :
               IF i <= Len(fnIn.durs)
               THEN EntryDur(i) = fnIn.durs[i]
               ELSE EntryDur(i) \in Numerals(fnIn.half)

\* The sequence number of the uploaded segment a URI line names.
SeqOfUri(uri) == fnIn.listing[CHOOSE k \in DOMAIN fnIn.listing : UrlOfListed(k) = uri]

\* C18: the reconstructed playlist has the VOD shape: the version tag, one
\* target-duration tag, the media-sequence tag 0, one EXTINF and URI pair
\* per uploaded segment with strictly increasing sequence numbers, and the
\* end-of-list tag once, as the last line.
VodShape ==
    fnOut.fn = "playlist" =>
        LET c == fnOut.content
        IN  /\ Len(c) = 5 + 2 * Len(fnIn.listing)
            /\ c[1] = <<"#EXTM3U">>
            /\ c[2] = <<"#EXT-X-VERSION:", "3">>
            /\ c[3][1] = "#EXT-X-TARGETDURATION:"
            /\ Cardinality({i \in 1..Len(c) : c[i][1] = "#EXT-X-TARGETDURATION:"}) = 1
            /\ c[4] = <<"#EXT-X-MEDIA-SEQUENCE:", "0">>
            /\ \A i \in 1..Len(fnIn.listing) :
                   /\ c[3 + 2 * i][1] = "#EXTINF:"
                   /\ \E k \in DOMAIN fnIn.listing : UrlOfListed(k) = EntryUri(i)
                   /\ i > 1 => SeqOfUri(EntryUri(i - 1)) < SeqOfUri(EntryUri(i))
            /\ c[Len(c)] = <<"#EXT-X-ENDLIST">>
            /\ Cardinality({i \in 1..Len(c) : c[i] = <<"#EXT-X-ENDLIST">>}) = 1

ShuffledPlaylistBuilt ==
    /\ fnOut.fn = "playlist"
    /\ Len(fnIn.listing) = MaxListed
    /\ fnIn.listing[1] > fnIn.listing[MaxListed]
    /\ Len(fnOut.content) = 5 + 2 * MaxListed

KeysDisjointAcrossJobs ==
    fnOut.fn = "jobs" =>
        \A j, k \in fnOut.done : j # k => fnOut.keys[j] \cap fnOut.keys[k] = {}

\* C22: with obfuscation every segment is sent with the content type the
\* table gives for its decoy extension, every decoy extension has an entry
\* so the fallback application/octet-stream is never sent, and without
\* obfuscation every segment is sent as video/mp2t.
ContentTypeByDecoyExtension ==
    fnOut.fn = "put" =>
        IF fnIn.fake
        THEN /\ ExtName(fnOut.entry.fileName) \in DOMAIN ContentTypes
             /\ fnOut.contentType = ContentTypes[ExtName(fnOut.entry.fileName)]
             /\ fnOut.contentType # "application/octet-stream"
             /\ ExtName(fnOut.entry.fileName) = ".png" => fnOut.contentType = "image/png"
        ELSE fnOut.contentType = "video/mp2t"

LastDecoySent ==
    /\ fnOut.fn = "put"
    /\ fnIn.fake
    /\ ExtName(fnOut.entry.fileName) = ".html"
    /\ fnOut.contentType = "text/html"

\* C23: obfuscation is a filename transform: the published name is the
\* numeric base name of the segment followed by one extension of the decoy
\* set, the local file keeps its name and size, and the size recorded for
\* the published segment is the size of the local file.
ObfuscationIsRename ==
    fnOut.fn = "put" =>
        /\ fnIn.fake =>
               /\ \E i \in DOMAIN FakeExtensions :
                      fnOut.entry.fileName = Pad3(fnIn.seq) \o <<FakeExtensions[i]>>
               /\ ParseInt(SplitDot0(fnOut.entry.fileName)) = fnIn.seq
        /\ ~fnIn.fake => fnOut.entry.fileName = TsName(fnIn.seq)
        /\ fnOut.localName = TsName(fnIn.seq)
        /\ fnOut.localSize = fnIn.size
        /\ fnOut.entry.size = fnIn.size

RenamedWithSize ==
    /\ fnOut.fn = "put"
    /\ fnIn.fake
    /\ fnIn.seq > 0
    /\ fnIn.size > 0
    /\ fnOut.entry.fileName # fnOut.localName

\* C24: a request with neither a URL nor a drive id is rejected, a request
\* on the drive path without an access token is rejected, a request that
\* asks for publication without a destination identifier is rejected, and
\* a request with a valid source that does not ask for publication is not
\* rejected for lacking a destination identifier.
ValidSource ==
    /\ Truthy(fnIn.videoUrl) \/ Truthy(fnIn.driveId)
    /\ Truthy(fnIn.driveId) => Truthy(fnIn.googleToken)

RequestValidation ==
    fnOut.fn = "validate" =>
        /\ (~Truthy(fnIn.videoUrl) /\ ~Truthy(fnIn.driveId)) => fnOut.rejected
        /\ (Truthy(fnIn.driveId) /\ ~Truthy(fnIn.googleToken)) => fnOut.rejected
        /\ (fnOut.publish /\ ~Truthy(fnIn.md5DriveId)) => fnOut.rejected
        /\ (ValidSource /\ ~fnOut.publish) => ~fnOut.rejected

\* C25, as stated: for a rate 'num/den' with den = 0, for a missing rate
\* and for a missing denominator the result is the fallback frame rate.
FallbackWheneverNoDenominator ==
    fnOut.fn = "fps" =>
        LET fr == SplitSlash(fnIn.rate)
        IN  (\/ ~fnIn.present
             \/ fnIn.rate = <<>>
             \/ Len(fr) = 1
             \/ fr[2] = <<>>
             \/ ParseFloat(fr[2]) = <<0, 1>>) => fnOut.fps = <<FallbackFps, 1>>

\* C25, amended: frame-rate resolution does not fail and its result is never
\* NaN or zero (and finite for a finite numerator); for a denominator of 0
\* and for a missing rate it is the fallback frame rate; a missing
\* denominator counts as 1, so the result is the numerator, or the fallback
\* when the numerator is 0 or not a number.
FpsTotal ==
    fnOut.fn = "fps" =>
        LET fr == SplitSlash(fnIn.rate)
            num == ParseFloat(fr[1])
        IN  /\ fnOut.fps[1] > 0 /\ fnOut.fps[2] > 0
            /\ (~fnIn.present \/ fnIn.rate = <<>>) => fnOut.fps = <<FallbackFps, 1>>
            /\ (Len(fr) >= 2 /\ ParseFloat(fr[2]) = <<0, 1>>) => fnOut.fps = <<FallbackFps, 1>>
            /\ (fnIn.present /\ fnIn.rate # <<>> /\ (Len(fr) = 1 \/ fr[2] = <<>>)) =>
                   fnOut.fps = (IF num[1] > 0 THEN num ELSE <<FallbackFps, 1>>)

ZeroDenominatorResolved ==
    /\ fnOut.fn = "fps"
    /\ fnIn.rate = <<"2", "5", "/", "0">>
    /\ fnOut.fps = <<FallbackFps, 1>>

\* C26: probing a file without a video stream fails: getVideoInfo does not
\* resolve for it and the encode stage is not started.
NoVideoStreamFailsProbe ==
    (fnOut.fn \in {"probed", "encodeStarted", "failed"}
        /\ \A i \in DOMAIN fnIn.streams : fnIn.streams[i].codec_type # "video") =>
            fnOut.outcome = "rejected" /\ fnOut.fn # "encodeStarted"

\* The stage a call is in: workspace and download, probe, detection, encode,
\* publish; the last value is a call that ended.
StageOf(p) ==
    CASE p = "idle" -> 0
      [] p \in {"downloadUrl", "downloadDrive", "downloadStalled"} -> 1
      [] p = "probe" -> 2
      [] p = "detect" -> 3
      [] p = "encode" -> 4
      [] p \in {"upload", "m3u8"} -> 5
      [] OTHER -> 6

\* C27: a job is a linear pipeline workspace, download, probe, detection,
\* encode, publish, teardown: a stage starts only after every earlier stage
\* completed (the detector has nothing running once the encoder runs), a
\* job completes only from its last stage, and a job one of whose stages
\* failed, teardown included, ends in failure.
LinearPipeline ==
    /\ [](\A j \in Jobs :
            /\ StageOf(pc[j]) \in {4, 5} =>
                   nv[j] \notin Live /\ encq[j] \notin Live /\ test[j] \notin Live
            /\ (pc[j] = "returned" /\ wsAtReturn[j] = "present") => result[j] = "error")
    /\ [][\A j \in Jobs :
            /\ StageOf(pc'[j]) >= StageOf(pc[j])
            /\ StageOf(pc'[j]) < 6 => StageOf(pc'[j]) <= StageOf(pc[j]) + 1
            /\ (pc[j] # "returned" /\ result'[j] = "completed") =>
                   \/ pc[j] = "m3u8"
                   \/ pc[j] = "encode" /\ ~upload[j]]_vars

\* C28: handler never throws: whatever fails, the call ends by returning
\* an object (no failure ends the process with the call still open), a
\* failed job returns the object with the 'error' message, and no returned
\* object has both an 'error' field and status 'completed'.
HandlerAlwaysReturnsObject ==
    LET Fields(r) == IF r = "completed" THEN {"success", "status", "output"}
                     ELSE IF r = "error" THEN {"error", "stack"}
                     ELSE {}
    IN  /\ ~crashed
        /\ \A j \in Jobs :
               pc[j] \in {"returned", "rejected"} =>
                   /\ Fields(result[j]) # {}
                   /\ ~("error" \in Fields(result[j]) /\ "status" \in Fields(result[j]))

\* C29: the source fetch always settles: on the URL path and on the drive
\* path, whatever the remote stream and the writer do, a download that has
\* not settled can still settle (the writer's 'finish' or 'error', or the
\* rejection of the request, is still to come); it never stays pending.
SourceFetchSettles ==
    \A j \in Jobs :
        pc[j] \in {"downloadUrl", "downloadDrive", "downloadStalled"} =>
            ENABLED (DownloadOk(j) \/ \E rmOk \in BOOLEAN : DownloadFail(j, rmOk))

\* C30: a failed put of a segment is retried: the step in which a put fails
\* leaves the call in the upload loop at the same segment, to put it again;
\* the call does not return on it.  (Every put of the loop is the first
\* attempt for its segment.)
FailedPutRetried ==
    [][\A j \in Jobs :
        (pc[j] = "upload" /\ pc'[j] # "upload" /\ upIdx'[j] = upIdx[j]) =>
            pc'[j] # "returned"]_vars

\* C31: when publication was requested and the job completes, the result
\* reports it: uploadedToStorage is true, segments is the uploaded list,
\* totalSegments equals output.segmentCount, and m3u8Url is the public URL of
\* the key the playlist was put under; for every segment count, zero too.
PublicationReported ==
    fnOut.fn = "result" =>
        LET r == fnOut.result
            listKeys == {k \in fnOut.keys : k[Len(k)] = "master.m3u8"}
        IN  /\ {"uploadedToStorage", "segments", "totalSegments", "m3u8Url"} \subseteq DOMAIN r
            /\ r.uploadedToStorage
            /\ r.segments = fnOut.segments
            /\ r.totalSegments = r.segmentCount
            /\ \E k \in listKeys : r.m3u8Url = <<"https://", CdnDomain, "/">> \o k

\* C32: the detection steps run in sequence and short-circuit: the encoder
\* listing is spawned only in the step in which the device query closed with
\* exit 0 and a GPU listed, the smoke encode only in the step in which the
\* listing showed a hardware encoder, and once the verdict is Software no
\* probe process is spawned in that run.
DetectionShortCircuits ==
    [][\A j \in Jobs :
        /\ (encq[j] = "none" /\ encq'[j] # "none") =>
               nv[j] # "exited" /\ nv'[j] = "exited" /\ nvRes'[j] = "ok"
        /\ (test[j] = "none" /\ test'[j] # "none") =>
               encq[j] # "exited" /\ encq'[j] = "exited" /\ encRes'[j] = "ok"
        /\ verdict[j] = "sw" =>
               /\ (nv[j] = "none" => nv'[j] = "none")
               /\ (encq[j] = "none" => encq'[j] = "none")
               /\ (test[j] = "none" => test'[j] = "none")]_vars

\* C33: the codec path follows the verdict: the argument list names the
\* hardware encoder, the CUDA device and the device-resident filters exactly
\* when the detector resolved true, and otherwise the software encoder with
\* the CPU filters and no device; encodingMethod names the path of the list.
CodecPathFollowsVerdict ==
    fnOut.fn = "encodeArgs" =>
        LET a == fnOut.args
            hw == /\ a["-c:v"] = "h264_nvenc"
                  /\ {"-init_hw_device", "-filter_hw_device", "-hwaccel"} \subseteq DOMAIN a
                  /\ a["-vf"] = "hwupload,scale_npp=trunc(iw/2)*2:trunc(ih/2)*2:interp_algo=lanczos"
            sw == /\ a["-c:v"] = "libx264"
                  /\ {"-init_hw_device", "-filter_hw_device", "-hwaccel"} \cap DOMAIN a = {}
                  /\ a["-vf"] # "hwupload,scale_npp=trunc(iw/2)*2:trunc(ih/2)*2:interp_algo=lanczos"
        IN  /\ hw <=> fnIn.useNVENC
            /\ sw <=> ~fnIn.useNVENC
            /\ fnOut.encodingMethod = (IF hw THEN "NVENC GPU" ELSE "Software x264")

SoftwareListLaunched ==
    /\ fnOut.fn = "encodeArgs"
    /\ ~fnIn.useNVENC
    /\ fnOut.args["-c:v"] = "libx264"
    /\ fnOut.encodingMethod = "Software x264"

\* C34: the playlist is put only after every segment of the job was put:
\* the call is at the put of the playlist, or has completed a publication,
\* only with all the listed segments uploaded, and the step in which a
\* segment put fails does not lead to the put of the playlist.
PlaylistAfterAllSegments ==
    /\ [](\A j \in Jobs :
            (pc[j] = "m3u8" \/ (pc[j] = "returned" /\ result[j] = "completed" /\ upload[j])) =>
                upIdx[j] = Cardinality(tsFiles[j]))
    /\ [][\A j \in Jobs :
            (pc[j] = "upload" /\ upIdx'[j] = upIdx[j]) => pc'[j] \in {"upload", "returned"}]_vars

PlaylistPutAfterSegments ==
    \E j \in Jobs :
        pc[j] = "returned" /\ result[j] = "completed" /\ upload[j] /\ upIdx[j] > 1

\* C35: the target duration of the reconstructed header is at least every
\* duration listed in that playlist, with and without a target-duration
\* line in the original.  Durations are compared in millionths of a second.
TargetIsMaximum ==
    fnOut.fn = "target" =>
        LET Frac(cs) == LET d == LeadDigits(cs)
                        IN  IF Len(d) >= 6 THEN DigitsVal(SubSeq(d, 1, 6))
                            ELSE DigitsVal(d \o [i \in 1..(6 - Len(d)) |-> "0"])
            Value(cs) == LET w == LeadDigits(cs)
                         IN  DigitsVal(w) * 1000000
                             + (IF Len(cs) > Len(w) /\ cs[Len(w) + 1] = "."
                                THEN Frac(SubSeq(cs, Len(w) + 2, Len(cs)))
                                ELSE 0)
            c == fnOut.content
        IN  \A i \in 1..Len(c) :
                c[i][1] = "#EXTINF:" =>
                    Value(SubSeq(c[3], 2, Len(c[3]))) >= Value(SubSeq(c[i], 2, Len(c[i]) - 1))

\* C36: a request with both a drive id and a URL is fetched from the drive
\* alone, and the URL is fetched exactly when the request has no drive id (an
\* empty string is no id).
DrivePathPreferred ==
    fnOut.fn = "fetch" =>
        /\ (Truthy(fnIn.driveId) /\ Truthy(fnIn.videoUrl)) => fnOut.fetched = {"drive"}
        /\ "url" \in fnOut.fetched <=> ~Truthy(fnIn.driveId)
        /\ "url" \in fnOut.fetched => Truthy(fnIn.videoUrl)
        /\ Cardinality(fnOut.fetched) = 1

BothSourcesSent ==
    /\ fnOut.fn = "fetch"
    /\ Truthy(fnIn.driveId) /\ Truthy(fnIn.videoUrl)
    /\ fnOut.fetched = {"drive"}

\* C37: the verdict is settled once: whatever the order of the close events
\* and the two timers, a verdict that is settled, and the path chosen from
\* it, are left unchanged by every later event of the run.
VerdictSettledOnce ==
    [][\A j \in Jobs :
        verdict[j] # "pending" =>
            /\ verdict'[j] = verdict[j]
            /\ by'[j] = by[j]
            /\ useNVENC'[j] = useNVENC[j]]_vars

LatePassAfterTimer ==
    \E j \in Jobs :
        by[j] = "timer1" /\ testRes[j] = "ok" /\ verdict[j] = "sw" /\ ~useNVENC[j]

\* C38: a request rejected by validation has no side effect: the step that
\* rejects it changes nothing in the file system and starts no child process
\* or timer, and the rejected call has no download, child process or upload
\* of its own afterwards.
RejectionHasNoSideEffect ==
    /\ [](\A j \in Jobs :
            pc[j] = "rejected" =>
                /\ nv[j] = "none" /\ encq[j] = "none" /\ test[j] = "none" /\ encp[j] = "none"
                /\ t1[j] = "off" /\ t2[j] = "off"
                /\ inputFile # j /\ playlist # j /\ \A n \in SegNames : segs[n] # j
                /\ upIdx[j] = 0 /\ result[j] = "error")
    /\ [][\A j \in Jobs :
            (pc[j] = "idle" /\ pc'[j] = "rejected") =>
                UNCHANGED <<fsVars, detVars, encVars>>]_vars

RejectedAfterLeftover ==
    \E j \in Jobs :
        /\ pc[j] = "rejected"
        /\ \E k \in Jobs \ {j} : pc[k] = "returned" /\ wsAtReturn[k] = "present"
        /\ dirExists

\* C39: the segments a job lists after its encode are files its own encoder
\* run wrote: no file left by an earlier job, whose cleanup failed or not, is
\* in the list of a later job.
OwnSegmentsListed ==
    [][\A j \in Jobs :
        tsFiles'[j] # tsFiles[j] => \A n \in tsFiles'[j] : segs[n] = j]_vars

\* C40: the health result is consistent under every interleaving of a close
\* event with its timeout: the call returns (the process does not end under
\* it), the returned object has both availability flags set to a boolean,
\* and in it, also after a late close, a flag is true only if no error
\* string was recorded for that check.
HealthResultConsistent ==
    fnOut.fn = "health" =>
        /\ fnOut.at # "crashed"
        /\ fnOut.at = "returned" =>
               /\ fnOut.ffmpeg_available \in {"true", "false"}
               /\ fnOut.gpu_available \in {"true", "false"}
               /\ fnOut.ffmpeg_available = "true" => fnOut.ffmpeg_error = "unset"
               /\ fnOut.gpu_available = "true" => fnOut.gpu_error = "unset"

====
